---------------------------- MODULE Spec2Model ----------------------------
(***************************************************************************)
(* Model of lexsy: placeholder detection (FileUpload.extractPlaceholders), *)
(* value formatting (DocumentProcessor.extractValue), the text preview     *)
(* (DocumentProcessor.generateCompletedDocument), the markup writer        *)
(* (DocumentViewer.handleDownload) and the page state that threads them.   *)
(*                                                                         *)
(* Texts are TLA+ strings.  Every index is a JavaScript index: 0-based,    *)
(* with -1 for "not found", and substring(s, a, b) is the half-open        *)
(* JavaScript substring.                                                   *)
(***************************************************************************)
EXTENDS Integers, Sequences, FiniteSets, Bags, TLC

VARIABLES
    documentContent,        \* page.tsx: text captured at upload
    placeholders,           \* page.tsx: catalog, a Map in insertion order
    fileBuffer,             \* page.tsx: word/document.xml of the uploaded file
    completedDocument,      \* page.tsx: last rendered preview
    filledData,             \* page.tsx: value map handed over with the preview
    filledPlaceholders,     \* DocumentProcessor: value map, insertion order
    placeholderKeys,        \* DocumentProcessor: the memoized sorted keys
    currentPlaceholderKey,  \* DocumentProcessor: the key asked for, NoKey if none
    conversation,           \* DocumentProcessor: the conversation has a message
    skippedPlaceholders,    \* DocumentProcessor: the set of skipped keys
    isAIThinking,           \* DocumentProcessor: a request disables the inputs
    prompts,                \* generatePrompt calls awaited by the mounted processor
    submitting,             \* bag of handleSubmit calls awaiting processUserResponse
    timers,                 \* bag of setTimeout callbacks not yet run
    savedXml,               \* DocumentViewer: markup it last handed to saveAs
    arg,                    \* pure-function harness: the call's arguments
    res                     \* pure-function harness: the call's result

vars == <<documentContent, placeholders, fileBuffer, completedDocument,
          filledData, filledPlaceholders, placeholderKeys, currentPlaceholderKey, conversation,
          skippedPlaceholders, isAIThinking, prompts, submitting, timers,
          savedXml, arg, res>>

pageVars == <<documentContent, placeholders, fileBuffer, completedDocument, filledData>>

processorVars == <<filledPlaceholders, placeholderKeys, currentPlaceholderKey, conversation,
                   skippedPlaceholders, isAIThinking>>

asyncVars == <<prompts, submitting, timers>>

-----------------------------------------------------------------------------
(* JavaScript string primitives                                            *)

Min(S) == CHOOSE x \in S : \A y \in S : x <= y
Max(S) == CHOOSE x \in S : \A y \in S : x >= y
min2(a, b) == IF a <= b THEN a ELSE b
max2(a, b) == IF a >= b THEN a ELSE b
abs(a) == IF a < 0 THEN -a ELSE a

\* the set of indexes as a sequence in increasing order
RECURSIVE SortedIndexes(_)
SortedIndexes(S) ==
    IF S = {} THEN <<>> ELSE <<Min(S)>> \o SortedIndexes(S \ {Min(S)})

\* s[i], "" past either end
charAt(s, i) == IF i >= 0 /\ i < Len(s) THEN SubSeq(s, i + 1, i + 1) ELSE ""

\* s[lo..hi) for 0 <= lo, hi <= Len(s)
clipped(s, lo, hi) == IF hi <= lo THEN "" ELSE SubSeq(s, lo + 1, hi)

\* s.substring(a, b) for a <= b
substring(s, a, b) ==
    clipped(s, min2(max2(a, 0), Len(s)), min2(max2(b, 0), Len(s)))

substringFrom(s, a) == substring(s, a, Len(s))

\* p occurs in s at index i
matchAt(s, i, p) ==
    i >= 0 /\ i + Len(p) <= Len(s) /\ SubSeq(s, i + 1, i + Len(p)) = p

\* every index at which p occurs in s
occurrences(s, p) == {i \in 0..(Len(s) - Len(p)) : matchAt(s, i, p)}

includes(s, p) == \E i \in 0..(Len(s) - Len(p)) : matchAt(s, i, p)

\* the least index of S, none if there is no index
leastOr(S, none) == IF S = {} THEN none ELSE Min(S)
greatestOr(S, none) == IF S = {} THEN none ELSE Max(S)

indexOfFrom(s, p, from) ==
    leastOr({i \in max2(from, 0)..(Len(s) - Len(p)) : matchAt(s, i, p)}, -1)

indexOf(s, p) == indexOfFrom(s, p, 0)

lastIndexOf(s, p) == greatestOr(occurrences(s, p), -1)

startsWith(s, p) == matchAt(s, 0, p)
endsWith(s, p) == matchAt(s, Len(s) - Len(p), p)

UpperAlpha == "ABCDEFGHIJKLMNOPQRSTUVWXYZ"
LowerAlpha == "abcdefghijklmnopqrstuvwxyz"
Digits == "0123456789"

UpperSet == {charAt(UpperAlpha, k) : k \in 0..25}
LowerSet == {charAt(LowerAlpha, k) : k \in 0..25}
DigitSet == {charAt(Digits, k) : k \in 0..9}

UpLow == [c \in UpperSet |->
            charAt(LowerAlpha, CHOOSE k \in 0..25 : charAt(UpperAlpha, k) = c)]

lowerChar(c) == IF c \in UpperSet THEN UpLow[c] ELSE c

\* s with the characters at the increasing indexes U[k..] lower-cased,
\* from index from on
RECURSIVE lowerFrom(_, _, _, _)
lowerFrom(s, U, k, from) ==
    IF k > Len(U) THEN substringFrom(s, from)
    ELSE substring(s, from, U[k]) \o lowerChar(charAt(s, U[k]))
         \o lowerFrom(s, U, k + 1, U[k] + 1)

toLowerCase(s) ==
    lowerFrom(s, SortedIndexes({i \in 0..(Len(s) - 1) : charAt(s, i) \in UpperSet}), 1, 0)

\* \s, \d and \w of the regular expressions
SpaceChars == {" ", "\n", "\t", "\r"}
isSpace(c) == c \in SpaceChars
isDigit(c) == c \in DigitSet
isWord(c) == c \in UpperSet \cup LowerSet \cup DigitSet \cup {"_"}
isLineEnd(c) == c \in {"\n", "\r"}

\* s between the indexes S of its characters that are not spaces
trimTo(s, S) == IF S = {} THEN "" ELSE substring(s, Min(S), Max(S) + 1)

\* s.trim()
trim(s) == trimTo(s, {i \in 0..(Len(s) - 1) : ~isSpace(charAt(s, i))})

\* the end (exclusive) of the longest run of characters of class C from i
runEnd(s, i, C) ==
    leastOr({j \in i..(Len(s) - 1) : charAt(s, j) \notin C}, max2(i, Len(s)))

\* s with every occurrence of the one-character string c removed
RECURSIVE removeChar(_, _)
removeFrom(s, c, i) ==
    IF i < 0 THEN s
    ELSE substring(s, 0, i) \o removeChar(substringFrom(s, i + 1), c)

removeChar(s, c) == removeFrom(s, c, indexOf(s, c))

-----------------------------------------------------------------------------
(* Catalog entries (types/placeholders.ts)                                 *)

NoContext == "undefined"
NoPosition == -1

PlaceholderInfo(key, originalFormat, prefix, type, context, position) ==
    [key |-> key, originalFormat |-> originalFormat, prefix |-> prefix,
     type |-> type, context |-> context, position |-> position]

PlaceholderData(info, value) == [info |-> info, value |-> value]

\* A JavaScript Map is a sequence of [key, val] in insertion order.
mapHas(m, k) == \E i \in 1..Len(m) : m[i].key = k
mapGet(m, k) == m[CHOOSE i \in 1..Len(m) : m[i].key = k].val
mapSet(m, k, v) ==
    IF mapHas(m, k)
    THEN [i \in 1..Len(m) |-> IF m[i].key = k THEN [key |-> k, val |-> v] ELSE m[i]]
    ELSE Append(m, [key |-> k, val |-> v])
mapKeys(m) == {m[i].key : i \in 1..Len(m)}
mapValues(m) == {m[i].val : i \in 1..Len(m)}

-----------------------------------------------------------------------------
(* extractValue                                                            *)

\* A JavaScript number as far as extractValue needs it: NaN, or a
\* non-negative decimal with its fraction in thousandths.
NaN == [nan |-> TRUE, int |-> 0, frac |-> 0]
Num(i, f) == [nan |-> FALSE, int |-> i, frac |-> f]

RECURSIVE digitsValue(_)
digitsValue(s) ==
    IF Len(s) = 0 THEN 0
    ELSE 10 * digitsValue(substring(s, 0, Len(s) - 1))
         + indexOf(Digits, charAt(s, Len(s) - 1))

\* parseFloat of numStr: the longest numeric prefix <digits>[.<digits>]
parseFloat(s) ==
    LET e == runEnd(s, 0, DigitSet)
        hasFrac == charAt(s, e) = "." /\ isDigit(charAt(s, e + 1))
        fe == IF hasFrac THEN runEnd(s, e + 1, DigitSet) ELSE e
        fr == substring(substring(s, e + 1, fe) \o "000", 0, 3)
    IN  IF e = 0 /\ ~hasFrac THEN NaN
        ELSE Num(digitsValue(substring(s, 0, e)),
                 IF hasFrac THEN digitsValue(fr) ELSE 0)

\* x * 10^3 and x * 10^6
timesThousand(x) == IF x.nan THEN NaN ELSE Num(x.int * 1000 + x.frac, 0)
timesMillion(x) == IF x.nan THEN NaN ELSE Num(x.int * 1000000 + x.frac * 1000, 0)

RECURSIVE natToString(_)
natToString(n) ==
    IF n < 10 THEN charAt(Digits, n)
    ELSE natToString(n \div 10) \o charAt(Digits, n % 10)

pad3(n) == charAt(Digits, n \div 100) \o charAt(Digits, (n \div 10) % 10)
           \o charAt(Digits, n % 10)

RECURSIVE groupThousands(_)
groupThousands(n) ==
    IF n < 1000 THEN natToString(n)
    ELSE groupThousands(n \div 1000) \o "," \o pad3(n % 1000)

\* the fraction digits of toLocaleString: at most three, no trailing zero
fractionDigits(f) ==
    IF f = 0 THEN ""
    ELSE IF f % 100 = 0 THEN "." \o charAt(Digits, f \div 100)
    ELSE IF f % 10 = 0 THEN "." \o charAt(Digits, f \div 100)
                                \o charAt(Digits, (f \div 10) % 10)
    ELSE "." \o pad3(f)

\* x.toLocaleString('en-US')
toLocaleString(x) ==
    IF x.nan THEN "NaN" ELSE groupThousands(x.int) \o fractionDigits(x.frac)

NumberChars == DigitSet \cup {","}
isNumberChar(c) == c \in NumberChars

\* the suffix alternatives (?:k|K|thousand|million|M)? under the i flag
suffixLength(s, i) ==
    LET low == toLowerCase(substring(s, i, i + 8))
    IN  IF startsWith(low, "k") THEN 1
        ELSE IF startsWith(low, "thousand") THEN 8
        ELSE IF startsWith(low, "million") THEN 7
        ELSE IF startsWith(low, "m") THEN 1
        ELSE 0

\* value.match(/[\d,]+(?:\.\d+)?(?:k|K|thousand|million|M)?/i): [found, text]
numberMatch(value) ==
    LET S == {i \in 0..(Len(value) - 1) : isNumberChar(charAt(value, i))}
        start == Min(S)
        e1 == runEnd(value, start, NumberChars)
        hasFrac == charAt(value, e1) = "." /\ isDigit(charAt(value, e1 + 1))
        e2 == IF hasFrac THEN runEnd(value, e1 + 1, DigitSet) ELSE e1
        e3 == e2 + suffixLength(value, e2)
    IN  IF S = {} THEN [found |-> FALSE, text |-> ""]
        ELSE [found |-> TRUE, text |-> substring(value, start, e3)]

isCurrencyPlaceholder(placeholder) ==
    \/ placeholder.prefix = "$"
    \/ includes(toLowerCase(placeholder.key), "amount")
    \/ includes(toLowerCase(placeholder.key), "valuation")

scaledNumber(numStr) ==
    LET low == toLowerCase(numStr)
    IN  IF includes(low, "k") THEN timesThousand(parseFloat(numStr))
        ELSE IF includes(low, "m") \/ includes(low, "million")
             THEN timesMillion(parseFloat(numStr))
        ELSE parseFloat(numStr)

extractValue(input, placeholder) ==
    LET value == trim(input)
        m == numberMatch(value)
        numStr == removeChar(m.text, ",")
    IN  IF isCurrencyPlaceholder(placeholder)
        THEN IF m.found THEN "$" \o toLocaleString(scaledNumber(numStr))
             ELSE IF ~startsWith(value, "$") THEN "$" \o value
             ELSE value
        ELSE value


-----------------------------------------------------------------------------
(* extractPlaceholders, first pass: currency blanks                        *)

CurrencyWindow == 100

BlankChars == {"_", " "}
isBlankChar(c) == c \in BlankChars

\* /\$\[([_ ]+)\]/ matches at i: the end of the match, or -1
currencyMatchEnd(text, i) ==
    LET e == runEnd(text, i + 2, BlankChars)
    IN  IF matchAt(text, i, "$[") /\ e > i + 2 /\ charAt(text, e) = "]"
        THEN e + 1 ELSE -1

\* the while loop over currencyRegex.exec(text): every blank, in document
\* order, with the lower-cased text around it (lower is text.toLowerCase(),
\* which keeps every index)
currencyBlanks(text, lower) ==
    LET starts == SortedIndexes({i \in 0..(Len(text) - 1) : currencyMatchEnd(text, i) >= 0})
    IN  [k \in 1..Len(starts) |->
            LET i == starts[k]
                e == currencyMatchEnd(text, i)
                startPos == max2(0, i - CurrencyWindow)
                endPos == min2(Len(text), e + CurrencyWindow)
            IN  [index |-> i,
                 originalFormat |-> substring(text, i, e),
                 context |-> substring(lower, startPos, endPos)]]

isValuationContext(context) ==
    includes(context, "valuation") \/ includes(context, "cap")
        \/ includes(context, "post-money")

\* isPurchaseContext that takes no window for a purchase window
isPurchaseContextNever(context) == FALSE

isPurchaseContext(context) ==
    includes(context, "purchase") \/ includes(context, "investment")
        \/ includes(context, "amount")

CurrencyInfo(key, originalFormat) ==
    PlaceholderInfo(key, originalFormat, "$", "currency-blank", NoContext, NoPosition)

\* currencyStep with the order fallback reversed: the first blank without
\* keywords becomes the valuation cap, the second the purchase amount
currencyStepCapFirst(st, blank) ==
    LET f == blank.originalFormat
        asCap == [map |-> mapSet(st.map, "Post-Money Valuation Cap",
                                 CurrencyInfo("Post-Money Valuation Cap", f)),
                  purchaseAmountSeen |-> st.purchaseAmountSeen,
                  valuationCapSeen |-> st.valuationCapSeen \cup {f}]
        asPurchase == [map |-> mapSet(st.map, "Purchase Amount",
                                      CurrencyInfo("Purchase Amount", f)),
                       purchaseAmountSeen |-> st.purchaseAmountSeen \cup {f},
                       valuationCapSeen |-> st.valuationCapSeen]
    IN  IF isValuationContext(blank.context)
        THEN IF f \notin st.valuationCapSeen THEN asCap ELSE st
        ELSE IF isPurchaseContext(blank.context)
        THEN IF f \notin st.purchaseAmountSeen THEN asPurchase ELSE st
        ELSE IF st.valuationCapSeen = {} THEN asCap
        ELSE IF st.purchaseAmountSeen = {} THEN asPurchase
        ELSE st

\* one iteration of currencyBlanks.forEach; st = [map, purchaseAmountSeen,
\* valuationCapSeen]
currencyStep(st, blank) ==
    LET f == blank.originalFormat
        asCap == [map |-> mapSet(st.map, "Post-Money Valuation Cap",
                                 CurrencyInfo("Post-Money Valuation Cap", f)),
                  purchaseAmountSeen |-> st.purchaseAmountSeen,
                  valuationCapSeen |-> st.valuationCapSeen \cup {f}]
        asPurchase == [map |-> mapSet(st.map, "Purchase Amount",
                                      CurrencyInfo("Purchase Amount", f)),
                       purchaseAmountSeen |-> st.purchaseAmountSeen \cup {f},
                       valuationCapSeen |-> st.valuationCapSeen]
    IN  IF isValuationContext(blank.context)
        THEN IF f \notin st.valuationCapSeen THEN asCap ELSE st
        ELSE IF isPurchaseContext(blank.context)
        THEN IF f \notin st.purchaseAmountSeen THEN asPurchase ELSE st
        ELSE IF st.purchaseAmountSeen = {} THEN asPurchase
        ELSE IF st.valuationCapSeen = {} THEN asCap
        ELSE st

RECURSIVE currencyPass(_, _, _)
currencyPass(st, blanks, k) ==
    IF k > Len(blanks) THEN st
    ELSE currencyPass(currencyStep(st, blanks[k]), blanks, k + 1)

firstPass(text, lower) ==
    currencyPass([map |-> <<>>, purchaseAmountSeen |-> {}, valuationCapSeen |-> {}],
                 currencyBlanks(text, lower), 1).map

-----------------------------------------------------------------------------
(* extractPlaceholders, second pass: the four delimiter patterns           *)

patterns ==
    << [open |-> "{{", close |-> "}}", type |-> "double-curly"],
       [open |-> "<<", close |-> ">>", type |-> "angle"],
       [open |-> "[",  close |-> "]",  type |-> "square"],
       [open |-> "{",  close |-> "}",  type |-> "curly"] >>

\* open([^c]+)close at i, c the first character of close: the index of the
\* closing delimiter, or -1.  [^c]+ runs to the first c and cannot stop
\* earlier, so the match exists only if close stands there.
delimitedClose(text, i, pat) ==
    LET s == i + Len(pat.open)
        j == indexOfFrom(text, charAt(pat.close, 0), s)
    IN  IF matchAt(text, i, pat.open) /\ j > s /\ matchAt(text, j, pat.close)
        THEN j ELSE -1

\* the successive regex.exec(text) results from lastIndex on: a match is
\* the leftmost one at or after lastIndex, the next search starts at its end
RECURSIVE execAll(_, _, _, _)
execAll(text, pat, starts, lastIndex) ==
    LET S == {i \in starts : i >= lastIndex}
        i == Min(S)
        j == delimitedClose(text, i, pat)
        e == j + Len(pat.close)
    IN  IF S = {} THEN <<>>
        ELSE <<[index |-> i,
                originalFormat |-> substring(text, i, e),
                group |-> substring(text, i + Len(pat.open), j)]>>
             \o execAll(text, pat, starts, e)

patternMatches(text, pat) ==
    execAll(text, pat,
            {i \in 0..(Len(text) - 1) : delimitedClose(text, i, pat) >= 0}, 0)

\* the blank test without its anchors, /[_ ]+/.test(key): any key with a
\* space or an underscore in it counts as a blank
isBlankKeyUnanchored(key) ==
    \E i \in 0..(Len(key) - 1) : isBlankChar(charAt(key, i))

\* /^[_ ]+$/.test(key)
isBlankKey(key) ==
    Len(key) > 0 /\ \A i \in 0..(Len(key) - 1) : isBlankChar(charAt(key, i))

\* s.replace(/\s+/g, ' ')
RECURSIVE collapseSpaces(_)
collapseSpaces(s) ==
    LET S == {i \in 0..(Len(s) - 1) : isSpace(charAt(s, i))}
        i == Min(S)
        e == runEnd(s, i, SpaceChars)
    IN  IF S = {} THEN s
        ELSE substring(s, 0, i) \o " " \o collapseSpaces(substringFrom(s, e))

\* \s*$ under the m flag from index e: blanks up to the end of the text or
\* up to a line terminator
spaceThenLineEnd(s, e) ==
    LET r == runEnd(s, e, SpaceChars)
    IN  r = Len(s) \/ \E q \in e..(r - 1) : isLineEnd(charAt(s, q))

\* ^word\s*$ under the m flag, s in lower case
hasLine(s, word) ==
    \E i \in occurrences(s, word) :
        /\ i = 0 \/ isLineEnd(charAt(s, i - 1))
        /\ spaceThenLineEnd(s, i + Len(word))

SignatureBefore == 1000
SignatureAfter == 500

checkSignatureContext(text, lower, match) ==
    LET startPos == max2(0, match.index - SignatureBefore)
        endPos == min2(Len(text), match.index + Len(match.originalFormat) + SignatureAfter)
        surroundingText == substring(lower, startPos, endPos)
        hasCompanyMarker ==
            \/ includes(surroundingText, "[company]")
            \/ includes(surroundingText, "company:")
            \/ hasLine(surroundingText, "company")
        hasInvestorMarker ==
            \/ includes(surroundingText, "investor:")
            \/ hasLine(surroundingText, "investor")
        hasByMarker ==
            \E i \in occurrences(surroundingText, "by:") :
                spaceThenLineEnd(surroundingText, i + 3)
        hasWitness == includes(surroundingText, "in witness")
        sigContext(company, investor) ==
            [isInSignatureBlock |-> company \/ investor \/ hasByMarker \/ hasWitness,
             hasCompanyMarker |-> company,
             hasInvestorMarker |-> investor,
             beforeText |-> substring(lower, startPos, match.index)]
    IN  sigContext(hasCompanyMarker, hasInvestorMarker)

\* the key after the [COMPANY] and [name] / [title] rules
signatureKey(text, lower, match, normalizedKey) ==
    LET isCompany(sigContext, companyIndex, investorIndex) ==
            IF companyIndex > investorIndex /\ companyIndex >= 0 THEN TRUE
            ELSE IF investorIndex >= 0 /\ investorIndex > companyIndex THEN FALSE
            ELSE sigContext.hasCompanyMarker /\ ~sigContext.hasInvestorMarker
        keyIn(lowerKey, sigContext) ==
            IF normalizedKey = "COMPANY" /\ sigContext.isInSignatureBlock
            THEN "Company Name"
            ELSE IF lowerKey \in {"name", "title"} /\ sigContext.isInSignatureBlock
            THEN IF isCompany(sigContext, lastIndexOf(sigContext.beforeText, "company"),
                              lastIndexOf(sigContext.beforeText, "investor"))
                 THEN (IF lowerKey = "name" THEN "Company Name Field" ELSE "Company Title")
                 ELSE (IF lowerKey = "name" THEN "Investor Name" ELSE "Investor Title")
            ELSE normalizedKey
    IN  keyIn(toLowerCase(normalizedKey), checkSignatureContext(text, lower, match))

\* one iteration of the while loop; st = [map, seenFormats]
patternStep(text, lower, pat, st, match) ==
    LET originalFormat == match.originalFormat
        seen == [st EXCEPT !.seenFormats = @ \cup {originalFormat}]
        add(normalizedKey) ==
            IF (normalizedKey # "Company Name" \/ originalFormat # "[COMPANY]")
               /\ mapHas(st.map, normalizedKey)
            THEN seen
            ELSE [seen EXCEPT !.map =
                    mapSet(@, normalizedKey,
                           PlaceholderInfo(normalizedKey, originalFormat, "", pat.type,
                                           NoContext, NoPosition))]
        normalize(normalizedKey0) ==
            IF normalizedKey0 = "" THEN seen
            ELSE add(signatureKey(text, lower, match, normalizedKey0))
        step(key) ==
            IF isBlankKey(key) THEN st
            ELSE IF originalFormat \in st.seenFormats THEN st
            ELSE normalize(trim(collapseSpaces(key)))
    IN  step(trim(match.group))

RECURSIVE patternLoop(_, _, _, _, _, _)
patternLoop(text, lower, pat, st, matches, k) ==
    IF k > Len(matches) THEN st
    ELSE patternLoop(text, lower, pat,
                     patternStep(text, lower, pat, st, matches[k]), matches, k + 1)

RECURSIVE patternsForEach(_, _, _, _)
patternsForEach(text, lower, st, n) ==
    IF n > Len(patterns) THEN st
    ELSE patternsForEach(text, lower,
            patternLoop(text, lower, patterns[n], st,
                        patternMatches(text, patterns[n]), 1),
            n + 1)

secondPass(text, lower, map) ==
    patternsForEach(text, lower, [map |-> map, seenFormats |-> {}], 1).map

-----------------------------------------------------------------------------
(* extractPlaceholders, third pass: label fields                           *)

labelFields == <<"Address", "Email", "Name", "Title">>

NearbyRange == 3000
CloseAfter == 500

\* /\b<label>:\s*$/gim: the indexes of the matches
labelIndexes(text, lower, word) ==
    {i \in occurrences(lower, word) :
        /\ ~isWord(charAt(text, i - 1))
        /\ spaceThenLineEnd(text, i + Len(word))}

\* the same in document order
labelMatches(text, lower, label) ==
    SortedIndexes(labelIndexes(text, lower, toLowerCase(label) \o ":"))

\* signatureBlockRegex: [COMPANY] and [INVESTOR] match from the bracket,
\* COMPANY and INVESTOR anywhere else (the longer alternatives come later
\* in the alternation and never win)
signatureMatches(lower) ==
    LET bracketed(w) == occurrences(lower, "[" \o w \o "]")
        plain(w) == {i \in occurrences(lower, w) : i - 1 \notin bracketed(w)}
    IN  [company |-> bracketed("company") \cup plain("company"),
         investor |-> bracketed("investor") \cup plain("investor")]

signatureType(sigs, i) == IF i \in sigs.company THEN "company" ELSE "investor"

\* the context of the label at labelIndex, "null" if none
labelContext(sigs, labelIndex) ==
    LET all == sigs.company \cup sigs.investor
        nearbySignatures == {i \in all : abs(i - labelIndex) < NearbyRange}
        beforeSignatures == {i \in nearbySignatures : i < labelIndex}
        \* reduce keeps the first of two equally distant markers
        closest(S) ==
            LET d == Min({abs(i - labelIndex) : i \in S})
            IN  Min({i \in S : abs(i - labelIndex) = d})
        near ==
            IF nearbySignatures = {} THEN "null"
            ELSE IF beforeSignatures # {}
            THEN signatureType(sigs, closest(beforeSignatures))
            ELSE IF labelIndex < closest(nearbySignatures) + CloseAfter
            THEN signatureType(sigs, closest(nearbySignatures))
            ELSE "null"
        hasC == sigs.company # {}
        hasI == sigs.investor # {}
        lastC == Max(sigs.company)
        lastI == Max(sigs.investor)
        around(last) ==
            labelIndex > last - CloseAfter /\ labelIndex < last + NearbyRange
        fallback ==
            IF hasC /\ hasI
            THEN IF labelIndex > lastI THEN "investor"
                 ELSE IF labelIndex > lastC /\ labelIndex < lastI THEN "company"
                 ELSE IF around(lastC) THEN "company"
                 ELSE "null"
            ELSE IF hasI /\ around(lastI) THEN "investor"
            ELSE IF hasC /\ around(lastC) THEN "company"
            ELSE "null"
    IN  IF near # "null" THEN near ELSE fallback

uniqueKey(context, label) ==
    IF context = "company"
    THEN (IF label = "Name" THEN "Company Name Field" ELSE "Company " \o label)
    ELSE "Investor " \o label

\* the party of a label, the company for a label without party
guessedContext(context) == IF context = "null" THEN "company" ELSE context

\* an iteration that files a label without party under the company
labelStepGuessed(text, sigs, label, map, labelIndex) ==
    mapSet(map, uniqueKey(guessedContext(labelContext(sigs, labelIndex)), label),
           PlaceholderInfo(uniqueKey(guessedContext(labelContext(sigs, labelIndex)), label),
                           substring(text, labelIndex, labelIndex + Len(label) + 1),
                           "", "square",
                           guessedContext(labelContext(sigs, labelIndex)), labelIndex))

\* one iteration of allMatches.forEach
labelStep(text, sigs, label, map, labelIndex) ==
    LET context == labelContext(sigs, labelIndex)
        key == uniqueKey(context, label)
        trimmedLabelText == substring(text, labelIndex, labelIndex + Len(label) + 1)
    IN  IF context = "null" THEN map
        ELSE IF mapHas(map, key) /\ mapGet(map, key).position = labelIndex THEN map
        ELSE mapSet(map, key,
                    PlaceholderInfo(key, trimmedLabelText, "", "square",
                                    context, labelIndex))

RECURSIVE labelLoop(_, _, _, _, _, _)
labelLoop(text, sigs, label, map, matches, k) ==
    IF k > Len(matches) THEN map
    ELSE labelLoop(text, sigs, label,
                   labelStep(text, sigs, label, map, matches[k]), matches, k + 1)

RECURSIVE labelFieldsForEach(_, _, _, _, _)
labelFieldsForEach(text, lower, sigs, map, n) ==
    IF n > Len(labelFields) THEN map
    ELSE labelFieldsForEach(text, lower, sigs,
            labelLoop(text, sigs, labelFields[n], map,
                      labelMatches(text, lower, labelFields[n]), 1),
            n + 1)

thirdPass(text, lower, map) ==
    labelFieldsForEach(text, lower, signatureMatches(lower), map, 1)

\* the case-insensitive matches are taken on the lower-cased text
extractPlaceholders(text) ==
    LET lower == toLowerCase(text)
    IN  thirdPass(text, lower, secondPass(text, lower, firstPass(text, lower)))

-----------------------------------------------------------------------------
(* The uploaded file.  A .docx is modelled by the paragraphs of its        *)
(* word/document.xml; a paragraph is the sequence of the texts of its runs *)
(* and may carry an empty property element.                                *)

Paragraph(pPr, runs) == [pPr |-> pPr, runs |-> runs]
P(text) == Paragraph(FALSE, <<text>>)

RECURSIVE concat(_)
concat(strings) ==
    IF Len(strings) = 0 THEN "" ELSE Head(strings) \o concat(Tail(strings))

\* s repeated n times
RECURSIVE repeat(_, _)
repeat(s, n) ==
    IF n <= 0 THEN ""
    ELSE IF n = 1 THEN s
    ELSE repeat(s, n \div 2) \o repeat(s, n - n \div 2)

\* mammoth.extractRawText: the runs' texts, two line feeds after a paragraph
rawText(file) ==
    concat([i \in 1..Len(file) |-> concat(file[i].runs) \o "\n\n"])

-----------------------------------------------------------------------------
(* DocumentProcessor: the order in which the keys are asked                *)

NoKey == ""

\* String.localeCompare for the keys of a catalog: symbols before digits
\* before letters, letters without regard to case, and when nothing else
\* tells two keys apart the lower-case letter first
CollationSymbols == " _-,;:!?.'()[]{}@*/&#%+<=>|~$0123456789"

primaryWeight(c) ==
    IF includes(LowerAlpha, toLowerCase(c))
    THEN Len(CollationSymbols) + indexOf(LowerAlpha, toLowerCase(c))
    ELSE indexOf(CollationSymbols, c)

localeCompare(a, b) ==
    LET common == 0..(min2(Len(a), Len(b)) - 1)
        lighter(i) == primaryWeight(charAt(a, i)) < primaryWeight(charAt(b, i))
        heavier(i) == primaryWeight(charAt(b, i)) < primaryWeight(charAt(a, i))
        decide(apart, cased) ==
            IF apart # {}
            THEN IF lighter(Min(apart)) THEN -1 ELSE 1
            ELSE IF Len(a) # Len(b) THEN (IF Len(a) < Len(b) THEN -1 ELSE 1)
            ELSE IF cased = {} THEN 0
            ELSE IF includes(LowerAlpha, charAt(a, Min(cased))) THEN -1 ELSE 1
    IN  decide({i \in common : lighter(i) \/ heavier(i)},
               {i \in common : charAt(a, i) # charAt(b, i)})

\* getPlaceholderOrder, in tenths
getPlaceholderOrder(key) ==
    LET orderOf(lowerKey) ==
            LET has(word) == includes(lowerKey, word)
            IN  IF lowerKey = "company name" \/ lowerKey = "company" THEN 10
                ELSE IF lowerKey = "investor name" THEN 20
                ELSE IF lowerKey = "purchase amount" \/ (has("purchase") /\ has("amount")) THEN 30
                ELSE IF has("date") /\ (has("safe") \/ has("agreement")) THEN 40
                ELSE IF lowerKey = "date" \/ lowerKey = "date of safe" THEN 40
                ELSE IF has("state") /\ has("incorporation") THEN 50
                ELSE IF lowerKey = "state of incorporation" \/ lowerKey = "state" THEN 50
                ELSE IF has("valuation") \/ has("cap") \/ lowerKey = "post-money valuation cap" THEN 60
                ELSE IF has("governing") \/ has("jurisdiction") \/ has("law") THEN 70
                ELSE IF has("company") /\ has("name") /\ ~has("investor") THEN 81
                ELSE IF has("company") /\ has("title") THEN 82
                ELSE IF has("company") /\ has("address") THEN 83
                ELSE IF has("company") /\ has("email") THEN 84
                ELSE IF has("investor") /\ has("name") THEN 91
                ELSE IF has("investor") /\ has("title") THEN 92
                ELSE IF has("investor") /\ has("address") THEN 93
                ELSE IF has("investor") /\ has("email") THEN 94
                ELSE 9990
    IN  orderOf(toLowerCase(key))

\* the index in ['name', 'title', 'address', 'email'] of the first of these
\* words that the key contains, -1 if none
fieldIndex(lowerKey) ==
    IF includes(lowerKey, "name") THEN 0
    ELSE IF includes(lowerKey, "title") THEN 1
    ELSE IF includes(lowerKey, "address") THEN 2
    ELSE IF includes(lowerKey, "email") THEN 3
    ELSE -1

\* a comparison that tells no two keys apart: the keys stay in insertion order
compareNothing(a, b) == 0

\* the comparison function handed to keys.sort
compareKeys(a, b) ==
    LET compare(aOrder, bOrder, aFieldIndex, bFieldIndex) ==
            IF aOrder # bOrder THEN aOrder - bOrder
            ELSE IF /\ aOrder >= 80 /\ aOrder < 100
                    /\ aFieldIndex # -1 /\ bFieldIndex # -1 /\ aFieldIndex # bFieldIndex
            THEN aFieldIndex - bFieldIndex
            ELSE localeCompare(a, b)
    IN  compare(getPlaceholderOrder(a), getPlaceholderOrder(b),
                fieldIndex(toLowerCase(a)), fieldIndex(toLowerCase(b)))

\* the keys of the catalog, sorted (the sort is stable)
sortedKeys(catalog) ==
    LET first(c, i, j) == c < 0 \/ (c = 0 /\ i < j)
        before(i, j) == first(compareKeys(catalog[i].key, catalog[j].key), i, j)
        rank(i) == 1 + Cardinality({j \in 1..Len(catalog) : before(j, i)})
    IN  [r \in 1..Len(catalog) |-> catalog[CHOOSE i \in 1..Len(catalog) : rank(i) = r].key]

\* keys.find(wanted), NoKey when there is none
firstKeyNone(keys, wanted) == NoKey

firstKey(keys, wanted) ==
    IF \E i \in 1..Len(keys) : keys[i] \in wanted
    THEN keys[Min({i \in 1..Len(keys) : keys[i] \in wanted})]
    ELSE NoKey

-----------------------------------------------------------------------------
(* page.tsx and FileUpload.processFile                                     *)

\* fileBuffer holds the uploaded file itself (its bytes), null before upload
NoBuffer == <<>>

handleDocumentParsed(content, placeholdersMap, buffer) ==
    /\ documentContent' = content
    /\ placeholders' = placeholdersMap
    /\ completedDocument' = ""
    /\ filledData' = <<>>
    /\ fileBuffer' = buffer

\* a call of handleSubmit whose processor is gone: its state setters do
\* nothing any more
detached(call) == [call EXCEPT !.live = FALSE]

\* the bag of the calls of a bag, all detached
detachedAll(calls) ==
    LET count(call) == IF call \in BagToSet(calls) THEN calls[call] ELSE 0
    IN  [call \in {detached(c) : c \in BagToSet(calls)} |->
            count(call) + count([call EXCEPT !.live = TRUE])]

\* a freshly mounted DocumentProcessor and its first effect, which asks for
\* the first key of the catalog
mountProcessor(catalog) ==
    LET ask(firstUnfilled) ==
            /\ currentPlaceholderKey' = firstUnfilled
            /\ isAIThinking' = (firstUnfilled # NoKey)
            /\ prompts' = IF firstUnfilled # NoKey THEN 1 ELSE 0
        mount(keys) ==
            /\ filledPlaceholders' = <<>>
            /\ placeholderKeys' = keys
            /\ conversation' = FALSE
            /\ skippedPlaceholders' = {}
            /\ ask(IF Len(keys) > 0 THEN keys[1] ELSE NoKey)
    IN  mount(sortedKeys(catalog))

\* the processor leaves the page: its state is dropped, the requests it
\* awaits go on without it
unmountProcessor ==
    /\ filledPlaceholders' = <<>>
    /\ placeholderKeys' = <<>>
    /\ conversation' = FALSE
    /\ skippedPlaceholders' = {}
    /\ currentPlaceholderKey' = NoKey
    /\ isAIThinking' = FALSE
    /\ prompts' = 0
    /\ submitting' = detachedAll(submitting)

\* DocumentProcessor is on the page when there is a file buffer and either
\* a preview or a loaded document
processorMounted(buffer, completed, content) ==
    buffer # NoBuffer /\ (completed # "" \/ content # "")

\* FileUpload is on the page only while there is neither a preview nor a
\* loaded document
processFile(file) ==
    LET parsed(content, found) ==
            IF Len(found) = 0
            THEN UNCHANGED <<pageVars, processorVars, prompts>>
            ELSE /\ handleDocumentParsed(content, found, file)
                 /\ mountProcessor(found)
    IN  /\ completedDocument = ""
        /\ documentContent = ""
        /\ parsed(rawText(file), extractPlaceholders(rawText(file)))
        /\ UNCHANGED <<submitting, timers, savedXml, arg, res>>

\* the button Upload New Document, next to the preview; DocumentViewer
\* leaves the page with what it saved
uploadNewDocument ==
    /\ completedDocument # ""
    /\ documentContent' = ""
    /\ placeholders' = <<>>
    /\ completedDocument' = ""
    /\ filledData' = <<>>
    /\ fileBuffer' = NoBuffer
    /\ unmountProcessor
    /\ savedXml' = ""
    /\ UNCHANGED <<timers, arg, res>>

-----------------------------------------------------------------------------
(* String.replace                                                          *)

\* the replacement text for the match s[i..e): $$, $& and $' are patterns,
\* every other $ stands for itself (the patterns have no groups).  The
\* fourth pattern, $ before a grave accent, is left out: no text of the
\* model contains a grave accent.
RECURSIVE expandReplacement(_, _, _, _)
expandAt(repl, s, i, e, d, n) ==
    substring(repl, 0, d)
    \o (IF n = "&" THEN substring(s, i, e)
        ELSE IF n = "'" THEN substringFrom(s, e)
        ELSE "$")
    \o expandReplacement(substringFrom(repl, IF n \in {"$", "&", "'"} THEN d + 2 ELSE d + 1),
                         s, i, e)

expandFrom(repl, s, i, e, d) ==
    IF d < 0 THEN repl ELSE expandAt(repl, s, i, e, d, charAt(repl, d + 1))

expandReplacement(repl, s, i, e) == expandFrom(repl, s, i, e, indexOf(repl, "$"))

\* s.replace(pattern, repl) with a string pattern: the first occurrence only
replaceAt(s, pattern, repl, i) ==
    IF i < 0 THEN s
    ELSE substring(s, 0, i)
         \o expandReplacement(repl, s, i, i + Len(pattern))
         \o substringFrom(s, i + Len(pattern))

replaceFirst(s, pattern, repl) == replaceAt(s, pattern, repl, indexOf(s, pattern))

\* the successive exec results of a literal pattern with the g flag: the
\* indexes of its non-overlapping occurrences from lastIndex on
RECURSIVE literalMatches(_, _, _)
literalFrom(s, pattern, i) ==
    IF i < 0 \/ Len(pattern) = 0 THEN <<>>
    ELSE <<i>> \o literalMatches(s, pattern, i + Len(pattern))

literalMatches(s, pattern, lastIndex) ==
    literalFrom(s, pattern, indexOfFrom(s, pattern, lastIndex))

RECURSIVE replaceMatches(_, _, _, _, _, _)
replaceMatches(s, len, repl, matches, k, from) ==
    IF k > Len(matches) THEN substringFrom(s, from)
    ELSE substring(s, from, matches[k])
         \o expandReplacement(repl, s, matches[k], matches[k] + len)
         \o replaceMatches(s, len, repl, matches, k + 1, matches[k] + len)

\* s.replace(new RegExp(escaped pattern, 'gi'), repl)
replaceAllIgnoreCase(s, pattern, repl) ==
    replaceMatches(s, Len(pattern), repl,
                   literalMatches(toLowerCase(s), toLowerCase(pattern), 0), 1, 0)

\* s.replace(new RegExp(escaped pattern, 'g'), repl)
replaceAll(s, pattern, repl) ==
    replaceMatches(s, Len(pattern), repl, literalMatches(s, pattern, 0), 1, 0)

-----------------------------------------------------------------------------
(* DocumentProcessor.generateCompletedDocument                             *)

LabelBefore == 2000
PositionTolerance == 500
MarkerReach == 1000
AfterLabelLength == 50

isLabelFormat(format) == endsWith(format, ":") /\ ~includes(format, "[")

hasContext(info) == info.context # NoContext

\* info.position || 0
positionOrZero(info) == IF info.position = NoPosition THEN 0 ELSE info.position

groupKeyOf(data) ==
    IF isLabelFormat(data.info.originalFormat) /\ hasContext(data.info)
    THEN data.info.originalFormat \o ":" \o data.info.context \o ":"
         \o natToString(positionOrZero(data.info))
    ELSE data.info.originalFormat

\* formatGroups flattened: the entries of filled in the order the two nested
\* forEach loops visit them (groups in order of first appearance, members
\* in insertion order), each with its group key
visitOrder(filled) ==
    LET first(g) == Min({i \in 1..Len(filled) : groupKeyOf(filled[i].val) = g})
        before(i, j) ==
            \/ first(groupKeyOf(filled[i].val)) < first(groupKeyOf(filled[j].val))
            \/ /\ groupKeyOf(filled[i].val) = groupKeyOf(filled[j].val)
               /\ i < j
        rank(i) == 1 + Cardinality({j \in 1..Len(filled) : before(j, i)})
    IN  [r \in 1..Len(filled) |->
            LET i == CHOOSE i \in 1..Len(filled) : rank(i) = r
            IN  [key |-> filled[i].key, data |-> filled[i].val,
                 groupKey |-> groupKeyOf(filled[i].val)]]

\* groupKey.split(':')[0] + ':' for a label group
groupFormat(groupKey, info) ==
    IF includes(groupKey, ":") /\ ~includes(groupKey, "[") /\ hasContext(info)
    THEN substring(groupKey, 0, indexOf(groupKey, ":")) \o ":"
    ELSE info.originalFormat

\* value.replace(/^\$/, '') changes nothing where it is applied: the value
\* does not start with the prefix '$'
formatValue(info, value) ==
    IF info.prefix # "" /\ ~startsWith(value, info.prefix)
    THEN info.prefix \o value
    ELSE value

\* the party of the label at labelIndex: the nearer of the words before it
previewContext(completed, labelIndex) ==
    LET context(companyMarker, investorMarker) ==
            IF companyMarker > investorMarker /\ companyMarker >= 0 THEN "company"
            ELSE IF investorMarker >= 0 /\ investorMarker > companyMarker THEN "investor"
            ELSE IF companyMarker >= 0 THEN "company"
            ELSE IF investorMarker >= 0 THEN "investor"
            ELSE "null"
        markers(beforeText) ==
            context(lastIndexOf(beforeText, "company"), lastIndexOf(beforeText, "investor"))
    IN  markers(toLowerCase(substring(completed, max2(0, labelIndex - LabelBefore),
                                      labelIndex)))

\* completed with ' ' + value put after the label at index
appendAfterLabel(completed, index, originalFormat, formattedValue) ==
    substring(completed, 0, index) \o originalFormat \o " " \o formattedValue
    \o substringFrom(completed, index + Len(originalFormat))

\* allLabels.find(...): the index in the text of the matching label, or -1
matchingLabel(completed, originalFormat, info) ==
    LET find(allLabels) ==
            LET context(k) == previewContext(completed, allLabels[k])
                isFirstOfContext(k) ==
                    \A j \in 1..(k - 1) :
                        context(j) # info.context \/ allLabels[j] > allLabels[k]
                ok(k) == /\ context(k) = info.context
                         /\ \/ isFirstOfContext(k)
                            \/ abs(allLabels[k] - info.position) < PositionTolerance
                first(K) == IF K = {} THEN -1 ELSE allLabels[Min(K)]
            IN  first({k \in 1..Len(allLabels) : ok(k)})
    IN  find(literalMatches(completed, originalFormat, 0))

\* the context-marker search: the first label that has a marker of the
\* entry's party shortly before it and nothing but blanks after it, or -1
labelByMarker(completed, originalFormat, info) ==
    LET companyMatches(lower, bracketed) ==
            {[index |-> i, length |-> 9] : i \in bracketed}
            \cup {[index |-> i, length |-> 7] :
                   i \in {j \in occurrences(lower, "company") : j - 1 \notin bracketed}}
        contextMatches(lower) ==
            IF info.context = "company"
            THEN companyMatches(lower, occurrences(lower, "[company]"))
            ELSE {[index |-> i, length |-> 8] : i \in occurrences(lower, "investor")}
        afterLabel(labelIndex) ==
            trim(substring(completed, labelIndex + Len(originalFormat),
                           labelIndex + Len(originalFormat) + AfterLabelLength))
        blank(t) == \A q \in 0..(Len(t) - 1) : charAt(t, q) = "_" \/ isSpace(charAt(t, q))
        find(labels, matches) ==
            LET relevant(labelIndex) ==
                    \E ctx \in matches :
                        /\ labelIndex > ctx.index
                        /\ labelIndex < ctx.index + ctx.length + MarkerReach
                first(K) == IF K = {} THEN -1 ELSE labels[Min(K)]
            IN  first({k \in 1..Len(labels) :
                         relevant(labels[k]) /\ blank(afterLabel(labels[k]))})
    IN  find(literalMatches(completed, originalFormat, 0),
             contextMatches(toLowerCase(completed)))

replaceLabel(completed, originalFormat, formattedValue, info) ==
    LET firstIndex == indexOf(completed, originalFormat)
        orFirst(byMarker) == IF byMarker >= 0 THEN byMarker ELSE firstIndex
        orByMarker(byPosition) ==
            IF byPosition >= 0 THEN byPosition
            ELSE orFirst(labelByMarker(completed, originalFormat, info))
        target ==
            IF hasContext(info) /\ info.position # NoPosition
            THEN orByMarker(matchingLabel(completed, originalFormat, info))
            ELSE firstIndex
        appendAt(index) ==
            IF index >= 0
            THEN appendAfterLabel(completed, index, originalFormat, formattedValue)
            ELSE completed
    IN  appendAt(target)

\* key.replace(/_\d+$/, '')
displayKeyOf(key) ==
    LET S == {i \in 0..(Len(key) - 2) :
                /\ charAt(key, i) = "_"
                /\ \A q \in (i + 1)..(Len(key) - 1) : isDigit(charAt(key, q))}
    IN  IF S = {} THEN key ELSE substring(key, 0, Min(S))

normalizedPatterns(displayKey) ==
    << "[" \o displayKey \o "]", "{" \o displayKey \o "}",
       "{{" \o displayKey \o "}}", "<<" \o displayKey \o ">>" >>

\* normalizedPatterns.forEach; each replacement is computed (its length is
\* taken) before the next pattern is applied to it
RECURSIVE replaceNormalized(_, _, _, _)
replaceNormalized(completed, pats, formattedValue, n) ==
    LET continue(next) ==
            IF Len(next) < 0 THEN next
            ELSE replaceNormalized(next, pats, formattedValue, n + 1)
    IN  IF n > Len(pats) THEN completed
        ELSE continue(replaceAllIgnoreCase(completed, pats[n], formattedValue))

\* one iteration of group.forEach
renderEntry(completed, entry) ==
    LET info == entry.data.info
        formattedValue == formatValue(info, entry.data.value)
        replace(originalFormat) ==
            IF isLabelFormat(originalFormat)
            THEN replaceLabel(completed, originalFormat, formattedValue, info)
            ELSE replaceFirst(completed, originalFormat, formattedValue)
        company(replaced, displayKey) ==
            IF displayKey = "Company Name"
            THEN replaceAllIgnoreCase(replaced, "[COMPANY]", formattedValue)
            ELSE replaced
        normalized(replaced, displayKey) ==
            IF info.type # "currency-blank"
            THEN replaceNormalized(company(replaced, displayKey),
                                   normalizedPatterns(displayKey), formattedValue, 1)
            ELSE replaced
    IN  normalized(replace(groupFormat(entry.groupKey, info)), displayKeyOf(entry.key))

RECURSIVE renderEntries(_, _, _)
renderEntries(completed, entries, k) ==
    LET continue(next) ==
            IF Len(next) < 0 THEN next ELSE renderEntries(next, entries, k + 1)
    IN  IF k > Len(entries) THEN completed
        ELSE continue(renderEntry(completed, entries[k]))

\* the preview left by the last rendering, when there is one
previewSourceRendered(content) ==
    IF completedDocument # "" THEN completedDocument ELSE content

\* let completed = documentContent: the text every rendering starts from
previewSource(content) == content

handleDocumentCompleted(completed, filled, buffer) ==
    /\ completedDocument' = completed
    /\ filledData' = filled
    /\ fileBuffer' = buffer

\* the text generateCompletedDocument hands to onDocumentCompleted
completedText(content, filled) ==
    renderEntries(previewSource(content), visitOrder(filled), 1)

\* generateCompletedDocument of a processor whose properties are content
\* and buffer
generateCompletedDocument(content, buffer, filled) ==
    /\ handleDocumentCompleted(completedText(content, filled), filled, buffer)
    /\ UNCHANGED <<documentContent, placeholders>>

-----------------------------------------------------------------------------
(* DocumentViewer.handleDownload: the markup and its regular expressions   *)

\* the character data of a run as the authoring tool writes it
xmlText(t) ==
    replaceAll(replaceAll(replaceAll(t, "&", "&amp;"), "<", "&lt;"), ">", "&gt;")

runXml(t) == "<w:r><w:t>" \o xmlText(t) \o "</w:t></w:r>"

paragraphXml(p) ==
    "<w:p>" \o (IF p.pPr THEN "<w:pPr/>" ELSE "")
    \o concat([i \in 1..Len(p.runs) |-> runXml(p.runs[i])]) \o "</w:p>"

\* zip.files['word/document.xml'].asText()
docXml(file) ==
    "<w:document><w:body>"
    \o concat([i \in 1..Len(file) |-> paragraphXml(file[i])])
    \o "</w:body></w:document>"

\* the index after the character at g, -1 if g is none
after(g) == IF g >= 0 THEN g + 1 ELSE -1

\* open[^>]*> at i: the index after the closing '>', or -1
tagEnd(s, i, open) ==
    IF matchAt(s, i, open) THEN after(indexOfFrom(s, ">", i + Len(open))) ELSE -1

\* the first '>' after the '<' at i
tagClose(gt, i) == Min({g \in gt : g > i})

\* s.replace(/<[^>]+>/g, by): a tag is a '<', at least one character and
\* the first '>' after it
RECURSIVE stripFrom(_, _, _, _, _)
stripTag(s, by, lt, gt, from, S) ==
    IF S = {} THEN substringFrom(s, from)
    ELSE substring(s, from, Min(S)) \o by
         \o stripFrom(s, by, lt, gt, tagClose(gt, Min(S)) + 1)

stripFrom(s, by, lt, gt, from) ==
    stripTag(s, by, lt, gt, from,
             {i \in lt : i >= from /\ (\E g \in gt : g > i) /\ tagClose(gt, i) > i + 1})

stripTags(s, by) == stripFrom(s, by, occurrences(s, "<"), occurrences(s, ">"), 0)

\* the successive exec results of a g-flagged expression: of the matches
\* (one [index, end] per start), the leftmost at or after lastIndex, then
\* on from its end
leftmost(S) == CHOOSE m \in S : \A o \in S : m.index <= o.index

RECURSIVE successive(_, _)
successiveAfter(matches, m) ==
    <<m>> \o successive(matches, IF m.end = m.index THEN m.end + 1 ELSE m.end)

successiveOf(matches, S) ==
    IF S = {} THEN <<>> ELSE successiveAfter(matches, leftmost(S))

successive(matches, lastIndex) ==
    successiveOf(matches, {m \in matches : m.index >= lastIndex})

noMatch == [index |-> -1, end |-> -1]

leftmostOr(S) == IF S = {} THEN noMatch ELSE leftmost(S)

\* the first match at or after from, [index |-> -1] if there is none
firstMatch(matches, from) == leftmostOr({m \in matches : m.index >= from})

closingTag == "</w:t>"

\* <w:t[^>]*> at i: the index of the text after it, or -1
textStart(lower, i) == tagEnd(lower, i, "<w:t")

\* (<w:t[^>]*>word</w:t>) on the lower-cased markup
inTagMatches(lower, word) ==
    {[index |-> i, end |-> textStart(lower, i) + Len(word) + Len(closingTag)] :
        i \in {j \in occurrences(lower, "<w:t") :
                 /\ textStart(lower, j) >= 0
                 /\ matchAt(lower, textStart(lower, j), word)
                 /\ matchAt(lower, textStart(lower, j) + Len(word), closingTag)}}

\* (</w:t>)? at e: the index after it
closedEnd(lower, e) == IF matchAt(lower, e, closingTag) THEN e + Len(closingTag) ELSE e

\* (<w:t[^>]*>)?word(</w:t>)? on the lower-cased markup
optionalTagMatches(lower, word) ==
    {[index |-> i, end |-> closedEnd(lower, textStart(lower, i) + Len(word))] :
        i \in {j \in occurrences(lower, "<w:t") :
                 textStart(lower, j) >= 0 /\ matchAt(lower, textStart(lower, j), word)}}
    \cup {[index |-> i, end |-> closedEnd(lower, i + Len(word))] :
            i \in occurrences(lower, word)}

colonTag == ":" \o closingTag

\* the rest of the two expressions below after the text at e: a is the end
\* of before, r the end of the spaces after it or after its closing tag
splitColonFrom(lower, before, between, e, a, r) ==
    IF e < 0 \/ ~matchAt(lower, e, before) THEN -1
    ELSE IF between
    THEN (IF matchAt(lower, r, colonTag) THEN r + Len(colonTag) ELSE -1)
    ELSE IF /\ matchAt(lower, a, closingTag)
            /\ textStart(lower, r) >= 0
            /\ matchAt(lower, textStart(lower, r), colonTag)
    THEN textStart(lower, r) + Len(colonTag)
    ELSE -1

splitColonAfter(lower, before, between, e, a) ==
    splitColonFrom(lower, before, between, e, a,
                   runEnd(lower, IF between THEN a ELSE a + Len(closingTag), SpaceChars))

\* (<w:t[^>]*>before</w:t>\s*<w:t[^>]*>:</w:t>) and, with between = TRUE,
\* (<w:t[^>]*>before\s*:</w:t>), on the lower-cased markup
splitColonEnd(lower, i, before, between) ==
    splitColonAfter(lower, before, between, textStart(lower, i),
                    textStart(lower, i) + Len(before))

splitColonMatches(lower, before, between) ==
    {[index |-> i, end |-> splitColonEnd(lower, i, before, between)] :
        i \in {j \in occurrences(lower, "<w:t") :
                 splitColonEnd(lower, j, before, between) >= 0}}

-----------------------------------------------------------------------------
(* DocumentViewer.handleDownload: label fields                             *)

ContextWindow == 5000
WiderWindow == 10000
LabelTolerance == 1000
SearchBefore == 3000
AfterXmlLength == 200
LabelSearchLength == 200
TextSearchLength == 100

\* the party from the last markers in the plain text and from the words
\* in the markup before a label
partyOf(companyMarker, investorMarker, companyInXml, investorInXml) ==
    IF companyMarker > investorMarker /\ companyMarker >= 0 THEN "company"
    ELSE IF investorMarker >= 0 /\ investorMarker > companyMarker THEN "investor"
    ELSE IF companyMarker >= 0 /\ ~investorInXml THEN "company"
    ELSE IF investorMarker >= 0 /\ ~companyInXml THEN "investor"
    ELSE IF companyInXml /\ ~investorInXml THEN "company"
    ELSE IF investorInXml /\ ~companyInXml THEN "investor"
    ELSE IF companyInXml /\ investorInXml
    THEN (IF companyMarker > investorMarker THEN "company" ELSE "investor")
    ELSE "null"

xmlContextIn(beforeText, plainBeforeText, widerBeforeText) ==
    partyOf(max2(lastIndexOf(plainBeforeText, "company"),
                 lastIndexOf(widerBeforeText, "company")),
            max2(lastIndexOf(plainBeforeText, "investor"),
                 lastIndexOf(widerBeforeText, "investor")),
            includes(beforeText, "company") \/ includes(widerBeforeText, "company"),
            includes(beforeText, "investor") \/ includes(widerBeforeText, "investor"))

xmlContextBefore(lower, xmlIndex, beforeText) ==
    xmlContextIn(beforeText, stripTags(beforeText, " "),
                 stripTags(substring(lower, max2(0, xmlIndex - WiderWindow), xmlIndex), " "))

\* the party of the label found at xmlIndex; lower is the lower-cased
\* markup (stripping the tags and lower-casing commute)
xmlContext(lower, xmlIndex) ==
    xmlContextBefore(lower, xmlIndex,
                     substring(lower, max2(0, xmlIndex - ContextWindow), xmlIndex))

emailPatterns(lower) ==
    <<inTagMatches(lower, "email:"), optionalTagMatches(lower, "email:")>>

labelPatternsOf(lower, word, isEmailLabel, trimmedLabel) ==
    << inTagMatches(lower, word),
       optionalTagMatches(lower, word),
       splitColonMatches(lower, removeChar(word, ":"), FALSE) >>
    \o (IF isEmailLabel
        THEN emailPatterns(lower) \o <<splitColonMatches(lower, "email", TRUE)>>
        ELSE <<>>)
    \o (IF trimmedLabel # word
        THEN <<inTagMatches(lower, trimmedLabel), optionalTagMatches(lower, trimmedLabel)>>
             \o (IF isEmailLabel THEN emailPatterns(lower) ELSE <<>>)
        ELSE <<>>)

labelPatternsFor(lower, word) ==
    labelPatternsOf(lower, word, includes(word, "email"), trim(word))

\* the expressions findLabelInXml tries, each as the set of its matches
labelPatterns(lower, labelText) == labelPatternsFor(lower, toLowerCase(labelText))

\* the label found at index of the markup
labelAt(lower, index) ==
    [xmlIndex |-> index,
     textIndex |-> Len(stripTags(substring(lower, 0, index), "")),
     context |-> xmlContext(lower, index)]

labelsAt(lower, found) == [k \in 1..Len(found) |-> labelAt(lower, found[k].index)]

xmlIndexes(results) == {results[k].xmlIndex : k \in 1..Len(results)}

\* the matches neither replaced nor seen
unseen(matches, replacedPositions, seen) ==
    SelectSeq(matches, LAMBDA m : m.index \notin replacedPositions /\ m.index \notin seen)

RECURSIVE collectLabels(_, _, _, _, _)
collectLabels(lower, pats, n, replacedPositions, results) ==
    IF n > Len(pats) THEN results
    ELSE collectLabels(lower, pats, n + 1, replacedPositions,
                       results \o labelsAt(lower, unseen(successive(pats[n], 0),
                                                         replacedPositions,
                                                         xmlIndexes(results))))

findLabelsIn(lower, labelText, replacedPositions) ==
    collectLabels(lower, labelPatterns(lower, labelText), 1, replacedPositions, <<>>)

findLabelInXml(xml, labelText, replacedPositions) ==
    findLabelsIn(toLowerCase(xml), labelText, replacedPositions)

\* before + ' ' + escapedValue + after
insertAt(xml, at, escapedValue) ==
    substring(xml, 0, at) \o " " \o escapedValue \o substringFrom(xml, at)

\* labelEndIndex from a match of the substring at index: index + the length
\* of the matched text, 6 less when the match ends in the closing tag
endOfMatch(lower, index, m) ==
    LET labelEndIndex == index + (m.end - m.index)
    IN  IF endsWith(substring(lower, m.index, m.end), closingTag)
        THEN labelEndIndex - Len(closingTag) ELSE labelEndIndex

\* the end of the line on which from stands
lineEndFrom(window, from) ==
    leastOr({q \in from..(Len(window) - 1) : isLineEnd(charAt(window, q))}, Len(window))

\* the colons after the name at i on its line
colonsAfter(window, name, i) ==
    {q \in occurrences(window, ":") :
        q >= i + Len(name) /\ q < lineEndFrom(window, i + Len(name))}

dotStarFirst(window, name, S) ==
    IF S = {} THEN noMatch
    ELSE [index |-> Min(S), end |-> Max(colonsAfter(window, name, Min(S))) + 1]

dotStarName(window, name) ==
    dotStarFirst(window, name,
                 {i \in occurrences(window, name) : colonsAfter(window, name, i) # {}})

\* word with every ':' replaced by '.*:' (word ends in its only colon),
\* searched in window: the first start of the label's name that has a
\* colon after it on its line, up to the last such colon
dotStarColon(window, word) == dotStarName(window, removeChar(word, ":"))

spanOf(index, w) ==
    IF index < 0 THEN noMatch ELSE [index |-> index, end |-> index + Len(w)]

plainMatch(text, w) == spanOf(indexOf(text, w), w)

\* the label's text in the text after the index
labelInText(textAfterIndex, word, dotted) ==
    IF includes(word, "email") THEN plainMatch(textAfterIndex, "email:")
    ELSE IF dotted THEN dotStarColon(textAfterIndex, word)
    ELSE plainMatch(textAfterIndex, word)

insertAfterText(xml, labelIndex, placeholderText, escapedValue, found) ==
    IF found.index >= 0
    THEN insertAt(xml, labelIndex + found.end, escapedValue)
    ELSE substring(xml, 0, labelIndex) \o placeholderText \o " " \o escapedValue
         \o substringFrom(xml, labelIndex + Len(placeholderText))

\* the fallback: the label's text within length characters of labelIndex and
\* the value after it, or the label written over the markup at labelIndex
insertByText(xml, labelIndex, placeholderText, escapedValue, length, dotted) ==
    insertAfterText(xml, labelIndex, placeholderText, escapedValue,
                    labelInText(toLowerCase(substring(xml, labelIndex, labelIndex + length)),
                                toLowerCase(placeholderText), dotted))

\* the value after the match of the label, by the text if there is none
insertAfterMatch(xml, lower, labelIndex, placeholderText, escapedValue, found,
                 length, dotted) ==
    IF found.index >= 0
    THEN insertAt(xml, endOfMatch(lower, labelIndex, found), escapedValue)
    ELSE insertByText(xml, labelIndex, placeholderText, escapedValue, length, dotted)

orEmailMatch(lower, word, labelIndex, labelEndMatch) ==
    IF labelEndMatch.index < 0 /\ includes(word, "email")
    THEN firstMatch(optionalTagMatches(lower, "email:"), labelIndex)
    ELSE labelEndMatch

flexibleMatch(lower, word, labelIndex) ==
    orEmailMatch(lower, word, labelIndex,
                 firstMatch(optionalTagMatches(lower, word), labelIndex))

\* the insertion of lines 402-447: by the optional-tag expression, then by
\* the text
insertFlexible(xml, labelIndex, placeholderText, escapedValue) ==
    insertAfterMatch(xml, toLowerCase(xml), labelIndex, placeholderText, escapedValue,
                     flexibleMatch(toLowerCase(xml), toLowerCase(placeholderText),
                                   labelIndex),
                     TextSearchLength, FALSE)

orElse(m, n) == IF m.index >= 0 THEN m ELSE n

emailInTag(lower, isEmailLabel, replaceIndex) ==
    IF isEmailLabel THEN firstMatch(inTagMatches(lower, "email:"), replaceIndex)
    ELSE noMatch

\* the expressions of lines 265-330 in the order tried
labelMatchOf(lower, word, isEmailLabel, trimmedPlaceholder, replaceIndex, email) ==
    orElse(firstMatch(inTagMatches(lower, word), replaceIndex),
    orElse(email,
    orElse(IF trimmedPlaceholder # word
           THEN orElse(firstMatch(inTagMatches(lower, trimmedPlaceholder), replaceIndex),
                       email)
           ELSE noMatch,
    orElse(firstMatch(optionalTagMatches(lower, word), replaceIndex),
           IF isEmailLabel
           THEN firstMatch(optionalTagMatches(lower, "email:"), replaceIndex)
           ELSE noMatch))))

labelMatchFor(lower, word, replaceIndex) ==
    labelMatchOf(lower, word, includes(word, "email"), trim(word), replaceIndex,
                 emailInTag(lower, includes(word, "email"), replaceIndex))

\* the insertion of lines 265-355 at the matching label
insertAtLabel(xml, replaceIndex, placeholderText, escapedValue) ==
    insertAfterMatch(xml, toLowerCase(xml), replaceIndex, placeholderText, escapedValue,
                     labelMatchFor(toLowerCase(xml), toLowerCase(placeholderText),
                                   replaceIndex),
                     LabelSearchLength, TRUE)

isLabelField(data) ==
    isLabelFormat(data.info.originalFormat) /\ data.info.position # NoPosition

\* the entries handleDownload treats as labels, sorted by position
\* descending (the sort is stable)
labelFieldsOf(filled) ==
    LET L == SelectSeq(filled, LAMBDA e : isLabelField(e.val))
        before(i, j) ==
            \/ L[i].val.info.position > L[j].val.info.position
            \/ L[i].val.info.position = L[j].val.info.position /\ i < j
        rank(i) == 1 + Cardinality({j \in 1..Len(L) : before(j, i)})
    IN  [r \in 1..Len(L) |-> L[CHOOSE i \in 1..Len(L) : rank(i) = r]]

otherFields(filled) == SelectSeq(filled, LAMBDA e : ~isLabelField(e.val))

\* formattedValue with &, < and > escaped, in this order
escapeXml(formattedValue) ==
    replaceAll(replaceAll(replaceAll(formattedValue, "&", "&amp;"), "<", "&lt;"),
               ">", "&gt;")

escapedValueOf(data) == escapeXml(formatValue(data.info, data.value))

\* allMatches.find(...) of lines 225-231: an index into allMatches, 0 if none
matchingLabelIn(allMatches, info) ==
    LET isFirstOfContext(k) ==
            \A j \in 1..Len(allMatches) :
                ~(/\ allMatches[j].context = info.context
                  /\ allMatches[j].textIndex < allMatches[k].textIndex)
        ok(k) == /\ allMatches[k].context = info.context
                 /\ \/ abs(allMatches[k].textIndex - info.position) < LabelTolerance
                    \/ isFirstOfContext(k)
        K == {k \in 1..Len(allMatches) : ok(k)}
    IN  IF K = {} THEN 0 ELSE Min(K)

\* the lenient choice for an Email label (lines 235-259): an index, 0 if none
lenientEmailLabel(allMatches, info, replacedPositions) ==
    LET before(i, j) ==
            \/ allMatches[i].textIndex < allMatches[j].textIndex
            \/ allMatches[i].textIndex = allMatches[j].textIndex /\ i < j
        rank(i) == 1 + Cardinality({j \in 1..Len(allMatches) : before(j, i)})
        sortedMatches(r) == CHOOSE i \in 1..Len(allMatches) : rank(i) = r
        K == {k \in 1..Len(allMatches) :
                /\ allMatches[k].context = info.context
                /\ allMatches[k].xmlIndex \notin replacedPositions}
    IN  IF Len(allMatches) >= 2
           /\ \A k \in 1..Len(allMatches) : allMatches[k].context = "null"
        THEN (IF info.context = "company" THEN sortedMatches(1)
              ELSE IF info.context = "investor" THEN sortedMatches(2)
              ELSE 0)
        ELSE IF K = {} THEN 0 ELSE Min(K)

\* the plain text before the label has the party's marker last
partyBefore(p, lastCompany, lastInvestor, context) ==
    \/ /\ context = "company"
       /\ \/ includes(p, "company") /\ ~includes(p, "investor")
          \/ lastCompany > lastInvestor
    \/ /\ context = "investor"
       /\ includes(p, "investor") /\ lastInvestor > lastCompany

matchesContext(p, context) ==
    partyBefore(p, lastIndexOf(p, "company"), lastIndexOf(p, "investor"), context)

plainBefore(xml, labelIndex) ==
    toLowerCase(stripTags(substring(xml, max2(0, labelIndex - SearchBefore), labelIndex),
                          " "))

textAfterLabel(xml, labelIndex, placeholderText) ==
    trim(substringFrom(stripTags(substring(xml, labelIndex, labelIndex + AfterXmlLength),
                                 " "),
                       Len(placeholderText)))

\* /^[_\s]*$/
blankOrSpaces(t) == \A q \in 0..(Len(t) - 1) : charAt(t, q) = "_" \/ isSpace(charAt(t, q))

insertedAt(xml, replacedPositions, index) ==
    [xml |-> xml, replacedPositions |-> replacedPositions \cup {index}]

insertAtFound(xml, placeholderText, escapedValue, replacedPositions, found, K) ==
    IF K = {} THEN [xml |-> xml, replacedPositions |-> replacedPositions]
    ELSE insertedAt(insertFlexible(xml, found[Min(K)].xmlIndex, placeholderText,
                                   escapedValue),
                    replacedPositions, found[Min(K)].xmlIndex)

contextSearchIn(xml, placeholderText, escapedValue, info, replacedPositions, found) ==
    insertAtFound(xml, placeholderText, escapedValue, replacedPositions, found,
                  {k \in 1..Len(found) :
                     /\ found[k].xmlIndex \notin replacedPositions
                     /\ matchesContext(plainBefore(xml, found[k].xmlIndex), info.context)
                     /\ blankOrSpaces(textAfterLabel(xml, found[k].xmlIndex,
                                                     placeholderText))})

\* the label search by context marker (lines 363-452): the first label
\* whose party is the entry's and that has only blanks after it gets the
\* value.  The collected contextMatches are not read by the code.
contextSearch(xml, placeholderText, escapedValue, info, replacedPositions) ==
    contextSearchIn(xml, placeholderText, escapedValue, info, replacedPositions,
                    findLabelInXml(xml, placeholderText, replacedPositions))

\* the value at the matching label, unless the label has one already
atLabel(state, entry, replaceIndex) ==
    IF replaceIndex \notin state.replacedPositions
    THEN insertedAt(insertAtLabel(state.xml, replaceIndex, entry.val.info.originalFormat,
                                  escapedValueOf(entry.val)),
                    state.replacedPositions, replaceIndex)
    ELSE state

\* a label field has a position: lines 454-543 are never entered, lines
\* 544-600 take the first label found
atFirstLabel(state, entry, xmlIndex) ==
    IF xmlIndex \notin state.replacedPositions
    THEN insertedAt(insertFlexible(state.xml, xmlIndex, entry.val.info.originalFormat,
                                   escapedValueOf(entry.val)),
                    state.replacedPositions, xmlIndex)
    ELSE state

orLenient(state, info, allMatches, isEmailField, firstChoice) ==
    IF firstChoice = 0 /\ isEmailField
    THEN lenientEmailLabel(allMatches, info, state.replacedPositions)
    ELSE firstChoice

atChosen(state, entry, allMatches, isEmailField, finalMatchingLabel) ==
    IF finalMatchingLabel # 0
    THEN atLabel(state, entry, allMatches[finalMatchingLabel].xmlIndex)
    ELSE IF isEmailField THEN state
    ELSE contextSearch(state.xml, entry.val.info.originalFormat,
                       escapedValueOf(entry.val), entry.val.info, state.replacedPositions)

labelFieldIn(state, entry, allMatches, isEmailField) ==
    IF hasContext(entry.val.info)
    THEN atChosen(state, entry, allMatches, isEmailField,
                  orLenient(state, entry.val.info, allMatches, isEmailField,
                            matchingLabelIn(allMatches, entry.val.info)))
    ELSE IF Len(allMatches) > 0 THEN atFirstLabel(state, entry, allMatches[1].xmlIndex)
    ELSE state

\* one iteration of labelFields.forEach on [xml, replacedPositions]
labelFieldStep(state, entry) ==
    labelFieldIn(state, entry,
                 findLabelInXml(state.xml, entry.val.info.originalFormat,
                                state.replacedPositions),
                 includes(toLowerCase(entry.val.info.originalFormat), "email"))

RECURSIVE labelFieldsLoop(_, _, _)
labelFieldsNext(next, entries, k) ==
    IF Len(next.xml) < 0 THEN next ELSE labelFieldsLoop(next, entries, k + 1)

labelFieldsLoop(state, entries, k) ==
    IF k > Len(entries) THEN state
    ELSE labelFieldsNext(labelFieldStep(state, entries[k]), entries, k)

-----------------------------------------------------------------------------
(* DocumentViewer.handleDownload: the other fields, the clean-up           *)

\* the expression built from the token's characters, c1 then
\* (?:<[^>]*>)*ck for every later character, tried at p for the characters
\* from the k-th on: the end of the match or -1.  The star takes a tag
\* where one starts and gives it back if the rest fails after it.
RECURSIVE tagTolerantEnd(_, _, _, _)
tagTolerantEnd(s, token, k, p) ==
    IF k > Len(token) THEN p
    ELSE LET g == indexOfFrom(s, ">", p + 1)
             viaTag == IF k > 1 /\ charAt(s, p) = "<" /\ g >= 0
                       THEN tagTolerantEnd(s, token, k, g + 1) ELSE -1
         IN  IF viaTag >= 0 THEN viaTag
             ELSE IF p < Len(s) /\ charAt(s, p) = charAt(token, k - 1)
             THEN tagTolerantEnd(s, token, k + 1, p + 1)
             ELSE -1

tagTolerantMatches(s, token) ==
    successive({[index |-> i, end |-> tagTolerantEnd(s, token, 1, i)] :
                  i \in {j \in occurrences(s, charAt(token, 0)) :
                           tagTolerantEnd(s, token, 1, j) >= 0}}, 0)

\* s.replace(regex, () => by): every match gives way to by as it stands
RECURSIVE replaceSpans(_, _, _, _, _)
replaceSpans(s, spans, k, from, by) ==
    IF k > Len(spans) THEN substringFrom(s, from)
    ELSE substring(s, from, spans[k].index) \o by
         \o replaceSpans(s, spans, k + 1, spans[k].end, by)

\* patterns.forEach of lines 667-675 (g flag, case-sensitive)
RECURSIVE replacePatterns(_, _, _, _)
replacePatternsNext(next, pats, escapedValue, n) ==
    IF Len(next) < 0 THEN next ELSE replacePatterns(next, pats, escapedValue, n + 1)

replacePatterns(xml, pats, escapedValue, n) ==
    IF n > Len(pats) THEN xml
    ELSE replacePatternsNext(replaceAll(xml, pats[n], escapedValue), pats, escapedValue, n)

otherNormalized(xml, company, displayKey, escapedValue) ==
    IF Len(company) < 0 THEN xml
    ELSE replacePatterns(company, normalizedPatterns(displayKey), escapedValue, 1)

otherCompany(xml, simple, displayKey, escapedValue) ==
    IF Len(simple) < 0 THEN xml
    ELSE otherNormalized(xml,
                         IF displayKey = "Company Name"
                         THEN replaceAllIgnoreCase(simple, "[COMPANY]", escapedValue)
                         ELSE simple,
                         displayKey, escapedValue)

otherSimple(xml, split, placeholderText, displayKey, escapedValue) ==
    IF Len(split) < 0 THEN xml
    ELSE otherCompany(xml, replaceAll(split, placeholderText, escapedValue), displayKey,
                      escapedValue)

otherField(xml, entry, placeholderText, escapedValue) ==
    otherSimple(xml,
                replaceSpans(xml, tagTolerantMatches(xml, placeholderText), 1, 0,
                             escapedValue),
                placeholderText, displayKeyOf(entry.key), escapedValue)

\* one iteration of otherFields.forEach
otherFieldStep(xml, entry) ==
    otherField(xml, entry, entry.val.info.originalFormat, escapedValueOf(entry.val))

RECURSIVE otherFieldsLoop(_, _, _)
otherFieldsNext(next, entries, k) ==
    IF Len(next) < 0 THEN next ELSE otherFieldsLoop(next, entries, k + 1)

otherFieldsLoop(xml, entries, k) ==
    IF k > Len(entries) THEN xml
    ELSE otherFieldsNext(otherFieldStep(xml, entries[k]), entries, k)

\* the pieces of the clean-up expressions
tag(open) == [kind |-> "tag", text |-> open]
lit(text) == [kind |-> "lit", text |-> text]
spaces == [kind |-> "spaces", text |-> ""]
someSpaces == [kind |-> "someSpaces", text |-> ""]
lazyUntil(text) == [kind |-> "lazyUntil", text |-> text]

\* where a piece tried at p can end
pieceEnds(s, piece, p) ==
    IF piece.kind = "tag"
    THEN (IF tagEnd(s, p, piece.text) >= 0 THEN {tagEnd(s, p, piece.text)} ELSE {})
    ELSE IF piece.kind = "lit"
    THEN (IF matchAt(s, p, piece.text) THEN {p + Len(piece.text)} ELSE {})
    ELSE IF piece.kind = "spaces" THEN p..runEnd(s, p, SpaceChars)
    ELSE IF piece.kind = "someSpaces" THEN (p + 1)..runEnd(s, p, SpaceChars)
    \* .*? and the text after it: any occurrence further on the line
    ELSE {j + Len(piece.text) :
            j \in {q \in occurrences(s, piece.text) :
                     /\ q >= p
                     /\ \A l \in p..(q - 1) : ~isLineEnd(charAt(s, l))}}

RECURSIVE piecesEnds(_, _, _, _)
piecesEnds(s, pieces, k, starts) ==
    IF k > Len(pieces) \/ starts = {} THEN starts
    ELSE piecesEnds(s, pieces, k + 1,
                    UNION {pieceEnds(s, pieces[k], p) : p \in starts})

\* (unit)+ from p: the positions one or more units can end at
RECURSIVE unitsEnds(_, _, _)
unitsMore(s, unit, once) ==
    IF once = {} THEN {} ELSE once \cup unitsEnds(s, unit, once)

unitsEnds(s, unit, starts) == unitsMore(s, unit, piecesEnds(s, unit, 1, starts))

\* an empty paragraph whose text is inner
emptyRun(inner) ==
    << tag("<w:p"), spaces, lit("<w:r>"), spaces, tag("<w:t"), inner,
       lit("</w:t>"), spaces, lit("</w:r>"), spaces, lit("</w:p>"), spaces >>

\* the five expressions (unit)+$ of lines 688-696
emptyParagraphs ==
    << << tag("<w:p"), spaces, tag("<w:ppr"), lazyUntil("</w:ppr>"), spaces,
          lit("</w:p>"), spaces >>,
       emptyRun(spaces),
       emptyRun(someSpaces),
       << tag("<w:p"), spaces, lit("</w:p>"), spaces >>,
       emptyRun(someSpaces) >>

upTo(s, S) == IF S = {} THEN s ELSE substring(s, 0, Min(S))

trailingStarts(s, lower, unit) ==
    {i \in occurrences(lower, unit[1].text) : Len(s) \in unitsEnds(lower, unit, {i})}

\* s.replace(/(unit)+$/i, ''): the text up to the leftmost start from which
\* units reach the end
removeTrailing(s, unit) == upTo(s, trailingStarts(s, toLowerCase(s), unit))

RECURSIVE cleanedBeforeBody(_, _)
cleanedNext(next, n) ==
    IF Len(next) < 0 THEN next ELSE cleanedBeforeBody(next, n + 1)

cleanedBeforeBody(beforeBody, n) ==
    IF n > Len(emptyParagraphs) THEN beforeBody
    ELSE cleanedNext(removeTrailing(beforeBody, emptyParagraphs[n]), n)

bodyEnd == "</w:body>"

cleanBody(modifiedXml, bodyEndIndex) ==
    IF bodyEndIndex > 0
    THEN cleanedBeforeBody(substring(modifiedXml, 0, bodyEndIndex), 1)
         \o substringFrom(modifiedXml, bodyEndIndex)
    ELSE modifiedXml

\* lines 680-699
cleanUp(modifiedXml) == cleanBody(modifiedXml, lastIndexOf(modifiedXml, bodyEnd))

\* the ends of the units from i that stand before a closing body tag
bodyEnds(lower, unit, i) ==
    {e \in unitsEnds(lower, unit, {i}) : matchAt(lower, e, bodyEnd)}

cutBefore(modifiedXml, i, end) ==
    substring(modifiedXml, 0, i) \o bodyEnd
    \o substringFrom(modifiedXml, end + Len(bodyEnd))

finalCleanFrom(modifiedXml, lower, unit, S) ==
    IF S = {} THEN modifiedXml
    ELSE cutBefore(modifiedXml, Min(S), Max(bodyEnds(lower, unit, Min(S))))

finalCleanIn(modifiedXml, lower, unit) ==
    finalCleanFrom(modifiedXml, lower, unit,
                   {i \in occurrences(lower, unit[1].text) : bodyEnds(lower, unit, i) # {}})

\* line 702: the first run of empty paragraphs that stands before a
\* closing body tag gives way to the tag
finalCleanUp(modifiedXml) ==
    finalCleanIn(modifiedXml, toLowerCase(modifiedXml), emptyParagraphs[4])

finalOf(cleaned) == IF Len(cleaned) < 0 THEN "" ELSE finalCleanUp(cleaned)

cleanedOf(replaced) == IF Len(replaced) < 0 THEN "" ELSE finalOf(cleanUp(replaced))

replacedOf(labelled, filled) ==
    IF Len(labelled) < 0 THEN ""
    ELSE cleanedOf(otherFieldsLoop(labelled, otherFields(filled), 1))

\* handleDownload with the literal tokens replaced before the labels get
\* their values
modifiedXmlLiteralsFirst(file, filled) ==
    cleanedOf(labelFieldsLoop([xml |-> otherFieldsLoop(docXml(file), otherFields(filled), 1),
                               replacedPositions |-> {}],
                              labelFieldsOf(filled), 1).xml)

\* the markup handleDownload writes for the file and the values
modifiedXmlOf(file, filled) ==
    replacedOf(labelFieldsLoop([xml |-> docXml(file), replacedPositions |-> {}],
                               labelFieldsOf(filled), 1).xml,
               filled)

\* the Download button of the DocumentViewer
handleDownload ==
    /\ completedDocument # ""
    /\ fileBuffer # NoBuffer
    /\ savedXml' = modifiedXmlOf(fileBuffer, filledData)
    /\ UNCHANGED <<pageVars, processorVars, asyncVars, arg, res>>

-----------------------------------------------------------------------------
(* DocumentProcessor: the handlers of the fill loop                        *)

\* requests and timers under way at one time
MaxPending == 2

pendingCount == prompts + BagCardinality(submitting) + BagCardinality(timers)

\* what the user types into the input
SubmitInputs == {"1,500"}

\* what the reply of the AI may hold: a formatted amount, a formatted date
AiCurrencyValues == {"$2,000"}
AiDateValues == {"May 5, 2025"}

\* processUserResponse: the rule-based value, which a formatted amount or
\* date found in the AI's reply replaces
extractedValues(input, info) ==
    {extractValue(input, info)}
    \cup (IF info.prefix = "$" THEN AiCurrencyValues ELSE {})
    \cup (IF includes(toLowerCase(info.key), "date") THEN AiDateValues ELSE {})

\* what a setTimeout callback holds on to
TimerCall(content, buffer, filled) ==
    [documentContent |-> content, fileBuffer |-> buffer, filled |-> filled]

\* generatePrompt comes back (with the AI's prompt or the fallback prompt)
\* to the effect, handleSubmit, handleSkip or handleFillSpecific of the
\* mounted processor
generatePromptResolved ==
    /\ prompts > 0
    /\ prompts' = prompts - 1
    /\ conversation' = TRUE
    /\ isAIThinking' = FALSE
    /\ UNCHANGED <<pageVars, filledPlaceholders, placeholderKeys, currentPlaceholderKey,
                   skippedPlaceholders, submitting, timers, savedXml, arg, res>>

\* handleSubmit up to its await of processUserResponse
handleSubmit(inputValue) ==
    /\ processorMounted(fileBuffer, completedDocument, documentContent)
    /\ currentPlaceholderKey # NoKey
    /\ trim(inputValue) # ""
    /\ ~isAIThinking
    /\ pendingCount < MaxPending
    /\ isAIThinking' = TRUE
    /\ submitting' = submitting (+) SetToBag({
           [key |-> currentPlaceholderKey, input |-> inputValue,
            placeholder |-> mapGet(placeholders, currentPlaceholderKey),
            filled |-> filledPlaceholders, skipped |-> skippedPlaceholders,
            keys |-> placeholderKeys,
            documentContent |-> documentContent, fileBuffer |-> fileBuffer,
            live |-> TRUE]})
    /\ UNCHANGED <<pageVars, filledPlaceholders, placeholderKeys, currentPlaceholderKey, conversation,
                   skippedPlaceholders, prompts, timers, savedXml, arg, res>>

\* handleSubmit from the return of processUserResponse on: the value goes
\* into a copy of the map the handler saw when it started
processUserResponseResolved(call, extractedValue) ==
    LET updated == mapSet(call.filled, call.key,
                          PlaceholderData(call.placeholder, extractedValue))
        nextPlaceholderKey ==
            firstKey(call.keys,
                     {key \in {call.keys[k] : k \in 1..Len(call.keys)} :
                        /\ ~mapHas(updated, key)
                        /\ key \notin call.skipped
                        /\ key # call.key})
        remainingCount == Len(call.keys) - Len(updated)
    IN  /\ submitting' = submitting (-) SetToBag({call})
        /\ timers' = IF nextPlaceholderKey = NoKey /\ remainingCount <= 0
                     THEN timers (+) SetToBag({TimerCall(call.documentContent,
                                                          call.fileBuffer, updated)})
                     ELSE timers
        /\ IF ~call.live
           THEN UNCHANGED <<processorVars, prompts>>
           ELSE /\ filledPlaceholders' = updated
                /\ currentPlaceholderKey' = nextPlaceholderKey
                /\ UNCHANGED <<skippedPlaceholders, placeholderKeys>>
                /\ IF nextPlaceholderKey # NoKey
                   THEN /\ prompts' = prompts + 1
                        /\ UNCHANGED <<conversation, isAIThinking>>
                   ELSE /\ conversation' = TRUE
                        /\ isAIThinking' = FALSE
                        /\ UNCHANGED prompts
        /\ UNCHANGED <<pageVars, savedXml, arg, res>>

\* handleSkip
handleSkip ==
    LET nextPlaceholderKey ==
            firstKey(placeholderKeys,
                     {key \in mapKeys(placeholders) :
                        /\ ~mapHas(filledPlaceholders, key)
                        /\ key \notin skippedPlaceholders
                        /\ key # currentPlaceholderKey})
        remainingCount == Len(placeholderKeys) - Len(filledPlaceholders)
    IN  /\ processorMounted(fileBuffer, completedDocument, documentContent)
        /\ currentPlaceholderKey # NoKey
        /\ ~isAIThinking
        /\ skippedPlaceholders' = skippedPlaceholders \cup {currentPlaceholderKey}
        /\ currentPlaceholderKey' = nextPlaceholderKey
        /\ IF nextPlaceholderKey # NoKey
           THEN /\ pendingCount < MaxPending
                /\ prompts' = prompts + 1
                /\ isAIThinking' = TRUE
                /\ UNCHANGED <<conversation, timers>>
           ELSE /\ conversation' = TRUE
                /\ UNCHANGED <<prompts, isAIThinking>>
                /\ IF remainingCount > 0 THEN UNCHANGED timers
                   ELSE /\ pendingCount < MaxPending
                        /\ timers' = timers (+) SetToBag({TimerCall(documentContent, fileBuffer,
                                                                 filledPlaceholders)})
        /\ UNCHANGED <<pageVars, filledPlaceholders, placeholderKeys, submitting, savedXml,
                       arg, res>>

\* the keys of the lists Filled Values (Edit) and Remaining Placeholders
selectableKeys ==
    LET remainingCount == Len(placeholderKeys) - Len(filledPlaceholders)
                              - Cardinality(skippedPlaceholders)
    IN  mapKeys(filledPlaceholders)
        \cup (IF remainingCount > 0
              THEN {key \in mapKeys(placeholders) :
                      ~mapHas(filledPlaceholders, key) /\ key \notin skippedPlaceholders}
              ELSE {})

\* handleFillSpecific, up to its await of generatePrompt
handleFillSpecific(key) ==
    /\ processorMounted(fileBuffer, completedDocument, documentContent)
    /\ key \in selectableKeys
    /\ pendingCount < MaxPending
    /\ currentPlaceholderKey' = key
    /\ isAIThinking' = TRUE
    /\ prompts' = prompts + 1
    /\ UNCHANGED <<pageVars, filledPlaceholders, placeholderKeys, conversation,
                   skippedPlaceholders, submitting, timers, savedXml, arg, res>>

\* the page after onDocumentCompleted: a processor that was not on the page
\* is mounted, one that was stays as it is
afterCompleted(completed, buffer) ==
    IF processorMounted(fileBuffer, completedDocument, documentContent)
    THEN UNCHANGED <<processorVars, prompts, submitting>>
    ELSE IF processorMounted(buffer, completed, documentContent)
    THEN mountProcessor(placeholders) /\ UNCHANGED submitting
    ELSE UNCHANGED <<processorVars, prompts, submitting>>

\* a timer set by handleSubmit or handleSkip runs generateCompletedDocument
timerFires(call) ==
    /\ generateCompletedDocument(call.documentContent, call.fileBuffer, call.filled)
    /\ afterCompleted(completedText(call.documentContent, call.filled), call.fileBuffer)
    /\ timers' = timers (-) SetToBag({call})
    /\ UNCHANGED <<savedXml, arg, res>>

\* the button Generate Completed Document
generateButton ==
    /\ processorMounted(fileBuffer, completedDocument, documentContent)
    /\ Len(filledPlaceholders) > 0
    /\ Len(placeholderKeys) - Len(filledPlaceholders) - Cardinality(skippedPlaceholders) = 0
    /\ generateCompletedDocument(documentContent, fileBuffer, filledPlaceholders)
    /\ UNCHANGED <<processorVars, asyncVars, savedXml, arg, res>>

-----------------------------------------------------------------------------
(* Harness for extractValue: the answer and the placeholder are drawn in   *)
(* Init, CallExtractValue applies the function.                            *)

NumStems == 3
MaxSpaces == 1

Stems == <<"100", "5", "2.5", "1,500", "12">>
Leads == {"", "$", "about "}
Units == {"", "k", "K", "thousand", "million", "M"}
Tails == {"", " dollars"}
Gaps == {substring("   ", 0, n) : n \in 0..MaxSpaces}

\* answers without any digit
WordAnswers == {"yes, later", "not sure", "$tbd", " unknown "}

ValuePlaceholders ==
    { PlaceholderInfo("Purchase Amount", "$[_____]", "$", "currency-blank",
                      NoContext, NoPosition),
      PlaceholderInfo("Post-Money Valuation Cap", "$[_____]", "$",
                      "currency-blank", NoContext, NoPosition),
      PlaceholderInfo("Amount of Shares", "[Amount of Shares]", "", "square",
                      NoContext, NoPosition),
      PlaceholderInfo("Date of Safe", "[Date of Safe]", "", "square",
                      NoContext, NoPosition),
      PlaceholderInfo("Company Name", "[Company Name]", "", "square",
                      NoContext, NoPosition) }

NumericArgs ==
    { [input |-> l \o Stems[i] \o g \o u \o t, placeholder |-> p,
       stem |-> i, gap |-> g, unit |-> u]
        : l \in Leads, i \in 1..NumStems, g \in Gaps, u \in Units,
          t \in Tails, p \in ValuePlaceholders }

WordArgs ==
    { [input |-> w, placeholder |-> p, stem |-> 0, gap |-> "", unit |-> ""]
        : w \in WordAnswers, p \in ValuePlaceholders }

NoCall == [done |-> FALSE, value |-> ""]
NoArg == [input |-> "", placeholder |-> PlaceholderInfo("", "", "", "square", NoContext, NoPosition),
          stem |-> 0, gap |-> "", unit |-> ""]

IdleApp ==
    /\ documentContent = ""
    /\ placeholders = <<>>
    /\ fileBuffer = NoBuffer
    /\ completedDocument = ""
    /\ filledData = <<>>
    /\ filledPlaceholders = <<>>
    /\ placeholderKeys = <<>>
    /\ currentPlaceholderKey = NoKey
    /\ conversation = FALSE
    /\ skippedPlaceholders = {}
    /\ isAIThinking = FALSE
    /\ prompts = 0
    /\ submitting = EmptyBag
    /\ timers = EmptyBag
    /\ savedXml = ""

appVars == <<pageVars, processorVars, asyncVars, savedXml>>

InitValue ==
    /\ IdleApp
    /\ arg \in NumericArgs \cup WordArgs
    /\ res = NoCall

CallExtractValue ==
    /\ ~res.done
    /\ res' = [done |-> TRUE, value |-> extractValue(arg.input, arg.placeholder)]
    /\ UNCHANGED <<arg, appVars>>

NextValue == CallExtractValue

SpecValue == InitValue /\ [][NextValue]_vars

-----------------------------------------------------------------------------
(* C1                                                                      *)

\* what the claim takes each stem to be worth, in [int, thousandths]
ClaimStemValue == <<Num(100, 0), Num(5, 0), Num(2, 500), Num(1500, 0), Num(12, 0)>>

ClaimScale(x, unit) ==
    IF unit \in {"k", "K", "thousand"} THEN timesThousand(x)
    ELSE IF unit \in {"M", "million"} THEN timesMillion(x)
    ELSE x

\* C1: for a currency placeholder (prefix "$") the first numeric token of the
\* answer, scaled by its k / thousand (x 1,000) or M / million (x 1,000,000)
\* suffix, is returned as "$" and the scaled number with thousands
\* separators; "100k" gives "$100,000", "5 million" gives "$5,000,000" and
\* "100 thousand dollars" gives "$100,000".
C1_ScaledCurrency ==
    (res.done /\ arg.placeholder.prefix = "$" /\ arg.stem > 0) =>
        /\ res.value = "$" \o toLocaleString(ClaimScale(ClaimStemValue[arg.stem], arg.unit))
        /\ (arg.input = "100k" => res.value = "$100,000")
        /\ (arg.input = "5 million" => res.value = "$5,000,000")
        /\ (arg.input = "100 thousand dollars" => res.value = "$100,000")

\* the part of C1 the code does implement: a suffix written directly
\* after the number, k / K / M / million
C1_AttachedSuffix ==
    (res.done /\ arg.placeholder.prefix = "$" /\ arg.stem > 0 /\ arg.gap = ""
        /\ arg.unit # "thousand") =>
        res.value = "$" \o toLocaleString(ClaimScale(ClaimStemValue[arg.stem], arg.unit))

C1_Reached100k ==
    res.done /\ arg.input = "100k" /\ arg.placeholder.prefix = "$" /\ res.value = "$100,000"

-----------------------------------------------------------------------------
(* Scanning: the files offered to processFile                              *)

MaxParagraphs == 2
MaxBlank == 2

ScanVocabulary ==
    {"[Company Name]", "{Company Name}", "[COMPANY]", "{{Investor Name}}",
     "<<Date of Safe>>", "[name]", "[title]", "[ ]", "[Company Title]",
     "$[_____]", "Name:", "Title:", "COMPANY", "INVESTOR", "By:"}

RECURSIVE SeqsUpTo(_, _)
SeqsUpTo(S, n) ==
    IF n = 0 THEN {<<>>}
    ELSE LET shorter == SeqsUpTo(S, n - 1)
         IN  shorter \cup {Append(q, x) : q \in shorter, x \in S}

TokenFiles ==
    {[i \in 1..Len(q) |-> P(q[i])] : q \in SeqsUpTo(ScanVocabulary, MaxParagraphs) \ {<<>>}}

\* filler longer than the label pass looks, and longer than a currency window
LongPad == P(repeat("x", NearbyRange))
WindowPad == P(repeat("x", CurrencyWindow))

SignatureGaps == {<<>>, <<LongPad>>}

SignatureFiles ==
    {<<P(m1)>> \o g1 \o <<P("Address:")>> \o g2 \o <<P(m2), P("Address:")>> :
        m1 \in {"COMPANY", "COMPANY:", "[COMPANY]"},
        m2 \in {"INVESTOR", "INVESTOR:", "[INVESTOR]"},
        g1 \in SignatureGaps, g2 \in SignatureGaps}

Blank(n) == "$[" \o repeat("_", n) \o "]"

Neutral == P("to be paid on signing")
PurchaseWords == P("the Purchase Amount")
CapWords == P("the Post-Money Valuation Cap")

LeadContexts ==
    {<<>>, <<PurchaseWords>>, <<CapWords>>, <<PurchaseWords, WindowPad>>}
MidContexts ==
    {<<>>, <<Neutral>>, <<CapWords>>, <<WindowPad, CapWords>>,
     <<PurchaseWords, WindowPad>>, <<WindowPad, CapWords, WindowPad>>}
TailContexts ==
    {<<>>, <<CapWords>>, <<WindowPad, PurchaseWords>>}

CurrencyFiles ==
    {a \o <<P(Blank(n1))>> \o b \o <<P(Blank(n2))>> \o c :
        a \in LeadContexts, b \in MidContexts, c \in TailContexts,
        n1 \in 1..MaxBlank, n2 \in 1..MaxBlank}

ScanFiles == TokenFiles \cup SignatureFiles \cup CurrencyFiles

InitScan == IdleApp /\ arg = NoArg /\ res = NoCall

NextScan == \E file \in ScanFiles : processFile(file)

SpecScan == InitScan /\ [][NextScan]_vars

-----------------------------------------------------------------------------
(* C2                                                                      *)

\* the literal tokens the scanned files are built from
ClaimTokens ==
    {t \in ScanVocabulary \cup {"[INVESTOR]"} :
        /\ startsWith(t, "[") \/ startsWith(t, "{") \/ startsWith(t, "<<")
        /\ t # "[ ]"}

ClaimLabels == {"Name:", "Title:"}

occursOnce(t) == Cardinality(occurrences(documentContent, t)) = 1

entriesFor(t) ==
    {i \in 1..Len(placeholders) : placeholders[i].val.originalFormat = t}

\* the name between the delimiters
tokenName(t) ==
    IF startsWith(t, "{{") \/ startsWith(t, "<<")
    THEN substring(t, 2, Len(t) - 2)
    ELSE substring(t, 1, Len(t) - 1)

\* the keys a token or a label can be filed under
ClaimKeys(t) ==
    IF t = "Name:" THEN {"Company Name Field", "Investor Name"}
    ELSE IF t = "Title:" THEN {"Company Title", "Investor Title"}
    ELSE {tokenName(t)}
         \cup (IF tokenName(t) = "COMPANY" THEN {"Company Name"} ELSE {})
         \cup (IF toLowerCase(tokenName(t)) = "name"
               THEN {"Company Name Field", "Investor Name"} ELSE {})
         \cup (IF toLowerCase(tokenName(t)) = "title"
               THEN {"Company Title", "Investor Title"} ELSE {})

\* the other tokens and labels of the document that can take one of t's keys
rivals(t) ==
    {u \in (ClaimTokens \cup ClaimLabels) \ {t} :
        /\ includes(documentContent, u)
        /\ ClaimKeys(u) \cap ClaimKeys(t) # {}}

\* C2: every literal token that occurs exactly once in the document has
\* exactly one catalog entry whose originalFormat is the token, whatever
\* else the document contains.
C2_OneEntryPerToken ==
    \A t \in ClaimTokens : occursOnce(t) => Cardinality(entriesFor(t)) = 1

\* C2 as the scanner keeps it: the catalog is keyed by the normalized key,
\* so a literal token that occurs exactly once has at most one entry, and
\* has exactly one unless another token or label of the document can take
\* its key, in which case the catalog holds an entry under one of its keys.
C2_OneEntryPerKey ==
    \A t \in ClaimTokens :
        occursOnce(t) =>
            /\ Cardinality(entriesFor(t)) <= 1
            /\ \/ Cardinality(entriesFor(t)) = 1
               \/ /\ rivals(t) # {}
                  /\ \E i \in 1..Len(placeholders) :
                        placeholders[i].key \in ClaimKeys(t)

C2_SharedKeyReached ==
    /\ occursOnce("[Company Name]") /\ occursOnce("{Company Name}")
    /\ Cardinality(entriesFor("[Company Name]")) = 1
    /\ entriesFor("{Company Name}") = {}
    /\ mapGet(placeholders, "Company Name").originalFormat = "[Company Name]"

-----------------------------------------------------------------------------
(* C5                                                                      *)

ClaimAddressLabels == occurrences(documentContent, "Address:")
ClaimCompanyMarkers == occurrences(documentContent, "COMPANY")
ClaimInvestorMarkers == occurrences(documentContent, "INVESTOR")

\* COMPANY, then Address:, then INVESTOR, then Address:
ClaimSignaturePage ==
    /\ Cardinality(ClaimAddressLabels) = 2
    /\ ClaimCompanyMarkers # {} /\ ClaimInvestorMarkers # {}
    /\ \A c \in ClaimCompanyMarkers : c < Min(ClaimAddressLabels)
    /\ \A v \in ClaimInvestorMarkers :
          Min(ClaimAddressLabels) < v /\ v < Max(ClaimAddressLabels)

hasEntry(key, context, position) ==
    /\ mapHas(placeholders, key)
    /\ mapGet(placeholders, key).context = context
    /\ mapGet(placeholders, key).position = position

\* C5: with a COMPANY marker, an Address: label, an INVESTOR marker and a
\* second Address: label in this order, the first label is filed as
\* 'Company Address' (company, its own offset) and the second as
\* 'Investor Address' (investor, its own offset).
C5_PartyByOrder ==
    ClaimSignaturePage =>
        /\ hasEntry("Company Address", "company", Min(ClaimAddressLabels))
        /\ hasEntry("Investor Address", "investor", Max(ClaimAddressLabels))

\* the same, for labels that have their marker within NearbyRange before
\* them (holds)
C5_PartyByNearMarker ==
    (/\ ClaimSignaturePage
     /\ Min(ClaimAddressLabels) - Max(ClaimCompanyMarkers) < NearbyRange) =>
        /\ hasEntry("Company Address", "company", Min(ClaimAddressLabels))
        /\ hasEntry("Investor Address", "investor", Max(ClaimAddressLabels))

-----------------------------------------------------------------------------
(* C6                                                                      *)

ClaimBlankStarts == occurrences(documentContent, "$[")

ClaimBlankText(i) ==
    substring(documentContent, i, indexOfFrom(documentContent, "]", i) + 1)

ClaimWindow(i) ==
    toLowerCase(substring(documentContent, max2(0, i - CurrencyWindow),
                          i + Len(ClaimBlankText(i)) + CurrencyWindow))

ClaimKeywords ==
    {"valuation", "cap", "post-money", "purchase", "investment", "amount"}

ClaimTwoPlainBlanks ==
    /\ Cardinality(ClaimBlankStarts) = 2
    /\ \A i \in ClaimBlankStarts : \A w \in ClaimKeywords :
          ~includes(ClaimWindow(i), w)

\* C6: two currency blanks with no keyword within 100 characters are
\* filed in document order: the first as 'Purchase Amount', the second as
\* 'Post-Money Valuation Cap', both currency-blank with prefix '$'.
C6_OrderFallback ==
    ClaimTwoPlainBlanks =>
        /\ mapHas(placeholders, "Purchase Amount")
        /\ mapGet(placeholders, "Purchase Amount") =
              PlaceholderInfo("Purchase Amount",
                              ClaimBlankText(Min(ClaimBlankStarts)),
                              "$", "currency-blank", NoContext, NoPosition)
        /\ mapHas(placeholders, "Post-Money Valuation Cap")
        /\ mapGet(placeholders, "Post-Money Valuation Cap") =
              PlaceholderInfo("Post-Money Valuation Cap",
                              ClaimBlankText(Max(ClaimBlankStarts)),
                              "$", "currency-blank", NoContext, NoPosition)

\* two blanks of different widths, keywords in the document but outside
\* both windows
C6_FarKeywordsReached ==
    /\ ClaimTwoPlainBlanks
    /\ includes(documentContent, "Valuation Cap")
    /\ includes(documentContent, "Purchase Amount")
    /\ ClaimBlankText(Min(ClaimBlankStarts)) # ClaimBlankText(Max(ClaimBlankStarts))
    /\ mapGet(placeholders, "Purchase Amount").originalFormat =
          ClaimBlankText(Min(ClaimBlankStarts))
    /\ mapGet(placeholders, "Post-Money Valuation Cap").originalFormat =
          ClaimBlankText(Max(ClaimBlankStarts))


-----------------------------------------------------------------------------
(* C29                                                                     *)

\* the delimiters of the four token syntaxes
ClaimDelimiters == {"{", "}", "[", "]", "<<", ">>"}

\* C29: every catalog entry stands for one whole token: no key holds a
\* delimiter of a token syntax, and the originalFormat of a curly entry is
\* not a fragment '{{X}' of a double-curly token, so that '{{X}}' gives the
\* double-curly entry 'X' and no curly entry '{X'.
C29_WholeTokens ==
    \A i \in 1..Len(placeholders) :
        /\ \A d \in ClaimDelimiters : ~includes(placeholders[i].key, d)
        /\ placeholders[i].val.type = "curly" =>
               ~startsWith(placeholders[i].val.originalFormat, "{{")

-----------------------------------------------------------------------------
(* C18                                                                     *)

ClaimCapWindow(i) ==
    \E w \in {"valuation", "cap", "post-money"} : includes(ClaimWindow(i), w)

ClaimPurchaseWindow(i) ==
    \E w \in {"purchase", "investment", "amount"} : includes(ClaimWindow(i), w)

\* the catalog has a currency-blank entry under key
ClaimCurrencyEntry(key) ==
    /\ mapHas(placeholders, key)
    /\ mapGet(placeholders, key).type = "currency-blank"

\* the entry under key, if it is a currency blank, has the text of a blank
\* whose window satisfies matching or has no keyword at all
ClaimBoundTo(key, matching(_)) ==
    ClaimCurrencyEntry(key) =>
        \E i \in ClaimBlankStarts :
            /\ ClaimBlankText(i) = mapGet(placeholders, key).originalFormat
            /\ matching(i) \/ (~ClaimCapWindow(i) /\ ~ClaimPurchaseWindow(i))

ClaimOneEntryPerKey ==
    \A i, j \in 1..Len(placeholders) :
        placeholders[i].key = placeholders[j].key => i = j

\* C18 as stated: every blank with a valuation keyword in its window is
\* keyed 'Post-Money Valuation Cap', every blank with a purchase keyword in
\* its window 'Purchase Amount'; one entry per key, each bound to a blank
\* whose window has the key's keywords or none.
C18_KeyedByKeyword ==
    /\ ClaimOneEntryPerKey
    /\ \A i \in ClaimBlankStarts :
          /\ ClaimCapWindow(i) => ClaimCurrencyEntry("Post-Money Valuation Cap")
          /\ ClaimPurchaseWindow(i) => ClaimCurrencyEntry("Purchase Amount")
    /\ ClaimBoundTo("Post-Money Valuation Cap", ClaimCapWindow)
    /\ ClaimBoundTo("Purchase Amount", ClaimPurchaseWindow)

\* C18, with the precedence of the code: the valuation keywords are looked
\* for first, and a blank is keyed 'Purchase Amount' by a purchase keyword
\* only when its window has no valuation keyword.
C18_ValuationFirst ==
    /\ ClaimOneEntryPerKey
    /\ \A i \in ClaimBlankStarts :
          /\ ClaimCapWindow(i) => ClaimCurrencyEntry("Post-Money Valuation Cap")
          /\ (ClaimPurchaseWindow(i) /\ ~ClaimCapWindow(i)) =>
                ClaimCurrencyEntry("Purchase Amount")
    /\ ClaimBoundTo("Post-Money Valuation Cap", ClaimCapWindow)
    /\ ClaimBoundTo("Purchase Amount",
                    LAMBDA i : ClaimPurchaseWindow(i) /\ ~ClaimCapWindow(i))

\* blanks of two widths with keywords of both kinds in their windows: the
\* catalog has the valuation cap, bound to the later blank, and no purchase
\* amount
C18_BothKindsReached ==
    \E i, j \in ClaimBlankStarts :
        /\ i < j
        /\ ClaimPurchaseWindow(i) /\ ClaimCapWindow(i)
        /\ ClaimPurchaseWindow(j) /\ ClaimCapWindow(j)
        /\ ClaimBlankText(i) # ClaimBlankText(j)
        /\ ClaimCurrencyEntry("Post-Money Valuation Cap")
        /\ mapGet(placeholders, "Post-Money Valuation Cap").originalFormat = ClaimBlankText(j)
        /\ ~mapHas(placeholders, "Purchase Amount")

-----------------------------------------------------------------------------
(* Rendering: a document is loaded and every placeholder of its catalog    *)
(* has been answered; the preview is generated and the file downloaded     *)

\* the paragraph whose text t is split over three runs
Split3(t) ==
    Paragraph(FALSE, << substring(t, 0, Len(t) \div 3),
                        substring(t, Len(t) \div 3, (2 * Len(t)) \div 3),
                        substringFrom(t, (2 * Len(t)) \div 3) >>)

EmptyParagraph(pPr) == Paragraph(pPr, <<>>)

SplitTokenFiles ==
    { <<Split3("[Investor Name]")>>, <<Split3("{Investor}")>>, <<Split3("$[____]")>>,
      <<Split3("{{Date}}")>>, <<Split3("<<Date>>")>>,
      <<P("Dated"), Split3("[Item]"), P("[Item]")>> }

CompanyFiles ==
    { <<P("[COMPANY]"), P("[Company Name]")>>,
      <<P("[COMPANY]"), Split3("[Company Name]")>>,
      <<Split3("[COMPANY]"), P("By:")>> }

RepeatedTokenFiles ==
    { <<P("[Item]"), P("[Item] and [Item]")>>,
      <<P("$[__]"), P("$[__]")>>,
      <<P("$[__]"), P("$[__]"), P("$[__]")>> }

LabelFiles ==
    { <<P("COMPANY"), P("Address:"), P("INVESTOR"), P("Address:")>> }

TrailingFiles ==
    { <<P("[Item]"), EmptyParagraph(TRUE)>>,
      <<P("[Item]"), EmptyParagraph(FALSE)>>,
      <<Paragraph(TRUE, <<"[Item]">>)>> }

RenderFiles ==
    SplitTokenFiles \cup CompanyFiles \cup RepeatedTokenFiles \cup LabelFiles
    \cup TrailingFiles

\* what the user types
Answers == <<"Acme Inc", "A&B <C>", "R$&D", "1,500">>

\* the orders in which the keys of a catalog of n entries get their values
FillOrders(n) ==
    { [i \in 1..n |-> i], [i \in 1..n |-> n + 1 - i] }

\* the value map after the keys of the catalog were answered in this order,
\* the i-th key of the catalog with the (i + shift)-th answer
filledBy(catalog, order, shift) ==
    [i \in 1..Len(catalog) |->
        LET entry == catalog[order[i]]
            input == Answers[((order[i] + shift) % Len(Answers)) + 1]
        IN  [key |-> entry.key,
             val |-> PlaceholderData(entry.val, extractValue(input, entry.val))]]

InitRender ==
    \E file \in RenderFiles :
        \E catalog \in {extractPlaceholders(rawText(file))} :
            \E order \in FillOrders(Len(catalog)), shift \in 0..(Len(Answers) - 1) :
                /\ documentContent = rawText(file)
                /\ placeholders = catalog
                /\ fileBuffer = file
                /\ completedDocument = ""
                /\ filledData = <<>>
                /\ filledPlaceholders = filledBy(catalog, order, shift)
                /\ placeholderKeys = sortedKeys(catalog)
                /\ currentPlaceholderKey = NoKey
                /\ conversation = TRUE
                /\ skippedPlaceholders = {}
                /\ isAIThinking = FALSE
                /\ prompts = 0
                /\ submitting = EmptyBag
                /\ timers = EmptyBag
                /\ savedXml = ""
                /\ arg = NoArg
                /\ res = NoCall

NextRender == generateButton \/ handleDownload

SpecRender == InitRender /\ [][NextRender]_vars


\* the entries of a catalog or value map that stand for a literal token
literalFormats(catalog) ==
    {catalog[i].val.originalFormat : i \in {j \in 1..Len(catalog) :
        ~isLabelFormat(catalog[j].val.originalFormat)}}

\* C3: once generateCompletedDocument ran with a value for every catalog
\* key, the preview holds no occurrence of the originalFormat of any literal
\* catalog entry, also when the token occurs several times.
C3_NoResidualToken ==
    (completedDocument # "" /\ Len(filledData) = Len(placeholders))
        => \A token \in literalFormats(placeholders) :
               ~includes(completedDocument, token)

\* the tokens of the value map whose characters the file holds split over
\* three runs, each with the value to put in its place
splitEntries(file, filled) ==
    {i \in 1..Len(filled) :
        /\ ~isLabelField(filled[i].val)
        /\ \E p \in 1..Len(file) : file[p] = Split3(filled[i].val.info.originalFormat)}

\* C4: a literal token split over three runs gives way, from its first to
\* its last character, to the escaped value: the paragraph is left with one
\* run holding the value and with no fragment of the token.
C4_SplitTokenReplaced ==
    savedXml # ""
        => \A i \in splitEntries(fileBuffer, filledData) :
               includes(savedXml,
                        "<w:p><w:r><w:t>" \o escapedValueOf(filledData[i].val)
                            \o "</w:t></w:r></w:p>")

\* the file holds a [COMPANY] token
hasCompanyToken(content) == includes(content, "[COMPANY]")

\* C7: with [COMPANY] filed under 'Company Name', the catalog has that one
\* entry for the company and one answer replaces every [COMPANY] and every
\* [Company Name], in the preview and in the saved markup, also when
\* [Company Name] is split over runs.
C7_OneAnswerFillsBoth ==
    hasCompanyToken(documentContent)
        => /\ Cardinality({i \in 1..Len(placeholders) :
                  toLowerCase(placeholders[i].val.originalFormat)
                      \in {"[company]", "[company name]"}}) = 1
           /\ mapHas(placeholders, "Company Name")
           /\ completedDocument # ""
                 => /\ ~includes(completedDocument, "[COMPANY]")
                    /\ ~includes(completedDocument, "[Company Name]")
           /\ savedXml # ""
                 => /\ ~includes(stripTags(savedXml, ""), "[COMPANY]")
                    /\ ~includes(stripTags(savedXml, ""), "[Company Name]")

\* the tag that starts at i
tagAt(xml, i) == substring(xml, i, indexOfFrom(xml, ">", i) + 1)

\* every closing tag of xml closes the last tag left open, and none is left
RECURSIVE balancedFrom(_, _, _, _)
balancedFrom(xml, starts, k, open) ==
    IF k > Len(starts) THEN open = <<>>
    ELSE LET t == tagAt(xml, starts[k])
         IN  IF endsWith(t, "/>") THEN balancedFrom(xml, starts, k + 1, open)
             ELSE IF startsWith(t, "</")
             THEN /\ Len(open) > 0
                  /\ open[Len(open)] = substring(t, 2, Len(t) - 1)
                  /\ balancedFrom(xml, starts, k + 1, SubSeq(open, 1, Len(open) - 1))
             ELSE balancedFrom(xml, starts, k + 1,
                               Append(open, substring(t, 1, Len(t) - 1)))

balanced(xml) == balancedFrom(xml, SortedIndexes(occurrences(xml, "<")), 1, <<>>)

\* C8: the markup handleDownload saves is tag-balanced when the markup of
\* the file is: the clean-up takes whole paragraphs only, also when the last
\* paragraph holds a self-closing <w:pPr/>.
C8_TagBalanced ==
    (savedXml # "" /\ balanced(docXml(fileBuffer))) => balanced(savedXml)

\* what stands between <w:t> and </w:t>, for every run of xml
runTexts(xml) ==
    {substring(xml, i + 5, indexOfFrom(xml, "</w:t>", i)) : i \in occurrences(xml, "<w:t>")}

\* every & of text starts one of the three entities, and text has no < or >
wellEscaped(text) ==
    /\ \A i \in occurrences(text, "&") :
           \E entity \in {"&amp;", "&lt;", "&gt;"} : matchAt(text, i, entity)
    /\ occurrences(text, "<") = {}
    /\ occurrences(text, ">") = {}

\* C9: every value handleDownload puts into the markup is escaped once, &
\* first: a run it changed holds the value of an entry with & as &amp;, < as
\* &lt; and > as &gt;, and nothing else that starts with &, for label and
\* literal entries alike.
C9_EscapedOnce ==
    savedXml # ""
        => \A text \in runTexts(savedXml) \ runTexts(docXml(fileBuffer)) :
               /\ wellEscaped(text)
               /\ \E i \in 1..Len(filledData) :
                      includes(text, escapeXml(formatValue(filledData[i].val.info,
                                                           filledData[i].val.value)))


-----------------------------------------------------------------------------
(* C23                                                                     *)

\* the paragraphs of the file that have visible text
ClaimTextParagraphs ==
    {p \in 1..Len(fileBuffer) : trim(concat(fileBuffer[p].runs)) # ""}

\* the visible text of the paragraph that opens at q in the saved markup
ClaimParagraphText(q) ==
    trim(stripTags(substring(savedXml, q,
                             leastOr({e \in occurrences(savedXml, "</w:p>") : e > q},
                                     lastIndexOf(savedXml, bodyEnd))), ""))

\* C23: in the markup handleDownload saves, the last paragraph opened before
\* the closing </w:body> has visible text, so no empty paragraph stands
\* before the end of the body, and the markup has as many paragraphs with
\* visible text as the file.
C23_NoTrailingEmpty ==
    (savedXml # "" /\ ClaimTextParagraphs # {}) =>
        /\ ClaimParagraphText(Max(occurrences(savedXml, "<w:p>"))) # ""
        /\ Cardinality({q \in occurrences(savedXml, "<w:p>") : ClaimParagraphText(q) # ""})
              = Cardinality(ClaimTextParagraphs)

-----------------------------------------------------------------------------
(* C20                                                                     *)

\* the two currency keys stand for blanks of the same text, and both have
\* a value
ClaimTwinBlanks ==
    /\ mapHas(placeholders, "Purchase Amount")
    /\ mapHas(placeholders, "Post-Money Valuation Cap")
    /\ mapGet(placeholders, "Purchase Amount").originalFormat =
          mapGet(placeholders, "Post-Money Valuation Cap").originalFormat
    /\ mapHas(filledData, "Purchase Amount")
    /\ mapHas(filledData, "Post-Money Valuation Cap")

\* the value of key as the preview shows it, with its prefix
ClaimShown(key) ==
    IF startsWith(mapGet(filledData, key).value, "$")
    THEN mapGet(filledData, key).value
    ELSE "$" \o mapGet(filledData, key).value

\* text with the occurrences of token at i and j > i replaced by a and b
ClaimReplacedAt(text, token, i, j, a, b) ==
    substring(text, 0, i) \o a \o substring(text, i + Len(token), j) \o b
        \o substringFrom(text, j + Len(token))

\* C20: two filled entries of the same originalFormat replace one occurrence
\* each: the purchase amount, bound by the scanner to the first blank, lands
\* on the first occurrence and the valuation cap on the second, in whatever
\* order the two keys were answered.
C20_EachOnItsOccurrence ==
    (completedDocument # "" /\ ClaimTwinBlanks) =>
        \A starts \in {SortedIndexes(ClaimBlankStarts)} :
            completedDocument =
                ClaimReplacedAt(documentContent,
                                mapGet(placeholders, "Purchase Amount").originalFormat,
                                starts[1], starts[2],
                                ClaimShown("Purchase Amount"),
                                ClaimShown("Post-Money Valuation Cap"))

-----------------------------------------------------------------------------
(* C26                                                                     *)

\* the visible text of the saved markup, paragraph after paragraph
ClaimMarkupText == stripTags(savedXml, "")

\* the preview without its line feeds, written as character data
ClaimPreviewText == xmlText(replaceAll(completedDocument, "\n", ""))

\* C26: preview and download agree. For a file with two blanks of the same
\* text filed under 'Purchase Amount' and 'Post-Money Valuation Cap', the
\* visible text of the markup handleDownload saves is the text of the
\* preview: each occurrence holds in the markup the value it holds in the
\* preview.
C26_PreviewAndDownloadAgree ==
    (completedDocument # "" /\ savedXml # "" /\ ClaimTwinBlanks) =>
        ClaimMarkupText = ClaimPreviewText

-----------------------------------------------------------------------------
(* Harness for values that hold the text of a token: a file with two       *)
(* literal tokens is answered, in both orders, with values that quote the  *)
(* other token, and is rendered and downloaded.                            *)

QuotingFiles ==
    { <<P("[Company Name]"), P("[Investor Name]")>>,
      <<P("[Investor Name]"), P("[Company Name]")>>,
      <<P("[Company Name] and [Investor Name]")>>,
      <<P("{Company Name}"), P("[Investor Name]")>>,
      <<P("[Item]"), P("[Investor Name]")>>,
      <<P("[Item]"), P("{Investor Name}")>>,
      <<P("[COMPANY]"), P("[Item]")>>,
      <<P("[Item]"), P("[item]")>> }

QuotingAnswers ==
    <<"c/o [Investor Name]", "Bob", "[Company Name] Ltd", "[COMPANY] or [Item]">>

quotingFilledBy(catalog, order, shift) ==
    [i \in 1..Len(catalog) |->
        [key |-> catalog[order[i]].key,
         val |-> PlaceholderData(catalog[order[i]].val,
                    extractValue(QuotingAnswers[((order[i] + shift) % Len(QuotingAnswers)) + 1],
                                 catalog[order[i]].val))]]

InitQuoting ==
    \E file \in QuotingFiles :
        \E catalog \in {extractPlaceholders(rawText(file))} :
            \E order \in FillOrders(Len(catalog)), shift \in 0..(Len(QuotingAnswers) - 1) :
                /\ documentContent = rawText(file)
                /\ placeholders = catalog
                /\ fileBuffer = file
                /\ completedDocument = ""
                /\ filledData = <<>>
                /\ filledPlaceholders = quotingFilledBy(catalog, order, shift)
                /\ placeholderKeys = sortedKeys(catalog)
                /\ currentPlaceholderKey = NoKey
                /\ conversation = TRUE
                /\ skippedPlaceholders = {}
                /\ isAIThinking = FALSE
                /\ prompts = 0
                /\ submitting = EmptyBag
                /\ timers = EmptyBag
                /\ savedXml = ""
                /\ arg = NoArg
                /\ res = NoCall

NextQuoting == generateButton \/ handleDownload

SpecQuoting == InitQuoting /\ [][NextQuoting]_vars

\* C27: substitutions do not interfere. Every value of the map stands
\* verbatim, as it is formatted, in the preview generateCompletedDocument
\* renders, and with its characters escaped in the markup handleDownload
\* saves, also when the value holds the token or a normalized pattern of
\* another key, and in either order of the entries.
C27_ValuesVerbatim ==
    /\ completedDocument # "" =>
           \A i \in 1..Len(filledData) :
               includes(completedDocument,
                        formatValue(filledData[i].val.info, filledData[i].val.value))
    /\ savedXml # "" =>
           \A i \in 1..Len(filledData) :
               includes(savedXml, escapedValueOf(filledData[i].val))

-----------------------------------------------------------------------------
(* The application: a document is uploaded, its placeholders are answered, *)
(* skipped and edited, the preview is generated and the file downloaded    *)

UploadFiles ==
    { <<P("Pay $[__]")>> }

Init == IdleApp /\ arg = NoArg /\ res = NoCall

Next ==
    \/ \E file \in UploadFiles : processFile(file)
    \/ generatePromptResolved
    \/ \E inputValue \in SubmitInputs : handleSubmit(inputValue)
    \/ \E call \in BagToSet(submitting) :
          \E extractedValue \in extractedValues(call.input, call.placeholder) :
              processUserResponseResolved(call, extractedValue)
    \/ handleSkip
    \/ \E key \in mapKeys(placeholders) : handleFillSpecific(key)
    \/ \E call \in BagToSet(timers) : timerFires(call)
    \/ generateButton
    \/ handleDownload
    \/ uploadNewDocument

Spec == Init /\ [][Next]_vars


\* the values an answer to the entry can give
valuesFor(info) == UNION {extractedValues(inputValue, info) : inputValue \in SubmitInputs}

-----------------------------------------------------------------------------
(* The fill loop on its own: a document with two placeholders is loaded     *)
(* and the processor has just been mounted                                 *)

FillFiles == { <<P("[Company Name] pays $[__]")>> }

InitFill ==
    \E file \in FillFiles :
        \E catalog \in {extractPlaceholders(rawText(file))} :
        \E keys \in {sortedKeys(catalog)} :
            /\ documentContent = rawText(file)
            /\ placeholders = catalog
            /\ fileBuffer = file
            /\ completedDocument = ""
            /\ filledData = <<>>
            /\ filledPlaceholders = <<>>
            /\ placeholderKeys = keys
            /\ currentPlaceholderKey = keys[1]
            /\ conversation = FALSE
            /\ skippedPlaceholders = {}
            /\ isAIThinking = TRUE
            /\ prompts = 1
            /\ submitting = EmptyBag
            /\ timers = EmptyBag
            /\ savedXml = ""
            /\ arg = NoArg
            /\ res = NoCall

NextFill ==
    \/ generatePromptResolved
    \/ \E inputValue \in SubmitInputs : handleSubmit(inputValue)
    \/ \E call \in BagToSet(submitting) :
          \E extractedValue \in extractedValues(call.input, call.placeholder) :
              processUserResponseResolved(call, extractedValue)
    \/ handleSkip
    \/ \E key \in mapKeys(placeholders) : handleFillSpecific(key)
    \/ \E call \in BagToSet(timers) : timerFires(call)
    \/ generateButton

SpecFill == InitFill /\ [][NextFill]_vars

\* C11: a step that changes the filled map stores a value under one key K
\* only: no key appears twice in the map, and every entry of another key,
\* the catalog and the document text are the same before and after.
storesUnderOneKey ==
    filledPlaceholders' # filledPlaceholders
       => /\ \A i, j \in 1..Len(filledPlaceholders') :
                 filledPlaceholders'[i].key = filledPlaceholders'[j].key => i = j
          /\ \E K \in mapKeys(filledPlaceholders') :
                 \A key \in (mapKeys(filledPlaceholders)
                              \cup mapKeys(filledPlaceholders')) \ {K} :
                     /\ mapHas(filledPlaceholders, key)
                     /\ mapHas(filledPlaceholders', key)
                     /\ mapGet(filledPlaceholders', key) = mapGet(filledPlaceholders, key)
          /\ placeholders' = placeholders
          /\ documentContent' = documentContent

C11_SubmitFrame == [][storesUnderOneKey]_vars


\* C24: a key that has a value in the filled map keeps it in every step,
\* except that a submit for that key which comes back may store another
\* value under it.
answersKept ==
    \A i \in 1..Len(filledPlaceholders) :
        /\ mapHas(filledPlaceholders', filledPlaceholders[i].key)
        /\ \/ mapGet(filledPlaceholders', filledPlaceholders[i].key).value
                 = filledPlaceholders[i].val.value
           \/ \E call \in BagToSet(submitting) :
                 /\ call.key = filledPlaceholders[i].key
                 /\ submitting' = submitting (-) SetToBag({call})

C24_AnswersKept == [][answersKept]_vars

\* the keys of the catalog that have neither a value nor been skipped
ClaimOpenKeys ==
    {placeholderKeys[k] : k \in 1..Len(placeholderKeys)}
        \ (mapKeys(filledPlaceholders) \cup skippedPlaceholders)

\* C25: the remaining count the processor shows is the number of catalog
\* keys neither filled nor skipped, and no key is both filled and skipped.
C25_RemainingCount ==
    /\ Len(placeholderKeys) - Len(filledPlaceholders) - Cardinality(skippedPlaceholders)
          = Cardinality(ClaimOpenKeys)
    /\ mapKeys(filledPlaceholders) \cap skippedPlaceholders = {}

-----------------------------------------------------------------------------
(* The fill loop with a user who answers every prompt and does nothing     *)
(* else: no Skip, no Edit, no Fill. Every request returns, with the value  *)
(* of the service or with the rule-based one.                              *)

AnswerFiles ==
    { <<P("[Company Name] pays $[__]")>>,
      <<P("[Company Name]"), P("[Investor Name]"), P("[Date of Safe]")>>,
      <<P("{{Investor Name}}"), P("[COMPANY]")>>,
      <<P("COMPANY"), P("Address:"), P("INVESTOR"), P("Address:")>> }

AnswerInputs == {"1,500", "Acme Inc"}

InitAnswer ==
    \E file \in AnswerFiles :
        \E catalog \in {extractPlaceholders(rawText(file))} :
        \E keys \in {sortedKeys(catalog)} :
            /\ documentContent = rawText(file)
            /\ placeholders = catalog
            /\ fileBuffer = file
            /\ completedDocument = ""
            /\ filledData = <<>>
            /\ filledPlaceholders = <<>>
            /\ placeholderKeys = keys
            /\ currentPlaceholderKey = keys[1]
            /\ conversation = FALSE
            /\ skippedPlaceholders = {}
            /\ isAIThinking = TRUE
            /\ prompts = 1
            /\ submitting = EmptyBag
            /\ timers = EmptyBag
            /\ savedXml = ""
            /\ arg = NoArg
            /\ res = NoCall

userAnswers == \E inputValue \in AnswerInputs : handleSubmit(inputValue)

responseArrives ==
    \E call \in BagToSet(submitting) :
        \E extractedValue \in extractedValues(call.input, call.placeholder) :
            processUserResponseResolved(call, extractedValue)

timeoutRuns == \E call \in BagToSet(timers) : timerFires(call)

NextAnswer ==
    \/ generatePromptResolved
    \/ userAnswers
    \/ responseArrives
    \/ timeoutRuns

\* a call leaves the bag of awaited responses, a callback the bag of
\* timeouts: of the steps of NextAnswer only those of responseArrives and of
\* timeoutRuns do so, and they can for every call that is in the bag
responseSettles ==
    \E call \in BagToSet(submitting) : submitting' = submitting (-) SetToBag({call})

timeoutElapses ==
    \E call \in BagToSet(timers) : timers' = timers (-) SetToBag({call})

\* the user answers when asked, every awaited promise settles and every
\* timeout runs
SpecAnswer ==
    /\ InitAnswer
    /\ [][NextAnswer]_vars
    /\ WF_vars(generatePromptResolved)
    /\ WF_vars(userAnswers)
    /\ WF_submitting(responseSettles)
    /\ WF_timers(timeoutElapses)

\* generateCompletedDocument has handed over a value for every catalog key
ClaimAllAnswered ==
    /\ completedDocument # ""
    /\ mapKeys(filledData) = mapKeys(placeholders)
    /\ mapKeys(filledPlaceholders) = mapKeys(placeholders)

\* the key asked for has no value yet
ClaimAskedOnce ==
    currentPlaceholderKey # NoKey => ~mapHas(filledPlaceholders, currentPlaceholderKey)

\* C30: with a user who answers every prompt and never skips, and requests
\* that all return, the loop ends: every catalog key gets a value and
\* generateCompletedDocument is called with the map of all of them, and on
\* the way no key that has a value is asked for again.
C30_FillLoopCompletes == <>ClaimAllAnswered /\ []ClaimAskedOnce

\* a catalog of three keys was answered to the end
C30_ThreeKeysAnswered == ClaimAllAnswered /\ Len(filledData) = 3

-----------------------------------------------------------------------------
(* Harness for the key order: a catalog is drawn in Init, CallSortedKeys   *)
(* sorts its keys as the processor does when it is mounted.                 *)

OrderSize == 2

\* keys the scanner gives to the placeholders of a SAFE
OrderKeys ==
    { "Company Name", "Investor Name", "Purchase Amount", "Post-Money Valuation Cap",
      "Date of Safe", "State of Incorporation", "Governing Law Jurisdiction",
      "Company Name Field", "Company Title", "Company Address",
      "Investor Title", "Investor Email" }

squareEntry(key) ==
    [key |-> key,
     val |-> PlaceholderInfo(key, "[" \o key \o "]", "", "square", NoContext, NoPosition)]

\* the catalogs of OrderSize different keys, in every insertion order
OrderCatalogs ==
    { [i \in 1..OrderSize |-> squareEntry(f[i])] :
        f \in {g \in [1..OrderSize -> OrderKeys] :
                 \A i, j \in 1..OrderSize : g[i] = g[j] => i = j} }

InitOrder ==
    /\ IdleApp
    /\ arg \in {[catalog |-> catalog] : catalog \in OrderCatalogs}
    /\ res = NoCall

CallSortedKeys ==
    /\ ~res.done
    /\ res' = [done |-> TRUE, value |-> sortedKeys(arg.catalog)]
    /\ UNCHANGED <<arg, appVars>>

NextOrder == CallSortedKeys

SpecOrder == InitOrder /\ [][NextOrder]_vars

\* the place of a key in the priority the processor documents: company
\* name, investor name, purchase amount, date of the SAFE, state of
\* incorporation, valuation cap, governing law, the company signatory's name,
\* title, address and email, the investor signatory's
documentedPlace ==
    << "Company Name", "Investor Name", "Purchase Amount", "Date of Safe",
       "State of Incorporation", "Post-Money Valuation Cap", "Governing Law Jurisdiction",
       "Company Name Field", "Company Title", "Company Address",
       "Investor Title", "Investor Email" >>

placeOf(key) == CHOOSE n \in 1..Len(documentedPlace) : documentedPlace[n] = key

\* the place of a key in the priority of seven classes: company identity,
\* investor identity, monetary terms, dates, jurisdiction, company signature
\* block, investor signature block
classOf(key) ==
    IF key = "Company Name" THEN 1
    ELSE IF key = "Investor Name" THEN 2
    ELSE IF key \in {"Purchase Amount", "Post-Money Valuation Cap"} THEN 3
    ELSE IF key = "Date of Safe" THEN 4
    ELSE IF key \in {"State of Incorporation", "Governing Law Jurisdiction"} THEN 5
    ELSE IF key \in {"Company Name Field", "Company Title", "Company Address"} THEN 6
    ELSE 7

sameKeys(keys, catalog) ==
    /\ Len(keys) = Len(catalog)
    /\ {keys[i] : i \in 1..Len(keys)} = {catalog[i].key : i \in 1..Len(catalog)}

\* C12 (as stated): the sorted keys follow the priority company identity,
\* investor identity, every monetary key, dates, jurisdiction, company
\* signature block, investor signature block.
C12_MonetaryBeforeDates ==
    res.done =>
        \A i, j \in 1..Len(res.value) : i < j => classOf(res.value[i]) <= classOf(res.value[j])

\* C12 (amended): the sorted keys are the keys of the catalog, each once, in
\* the priority company name, investor name, purchase amount, date of the
\* SAFE, state of incorporation, valuation cap, governing law, company
\* signatory fields, investor signatory fields.  The place of a key is its
\* own, so the order is one and the same for every insertion order of the
\* same keys.
C12_DocumentedOrder ==
    res.done =>
        /\ sameKeys(res.value, arg.catalog)
        /\ \A i, j \in 1..Len(res.value) :
              i < j => placeOf(res.value[i]) < placeOf(res.value[j])

\* a catalog in which the valuation cap was inserted before the date has
\* been sorted: the date comes first
C12_DateBeforeCap ==
    /\ res.done
    /\ \E i, j \in 1..Len(res.value) :
          /\ i < j
          /\ res.value[i] = "Date of Safe"
          /\ res.value[j] = "Post-Money Valuation Cap"
    /\ \E i, j \in 1..Len(arg.catalog) :
          /\ i < j
          /\ arg.catalog[i].key = "Post-Money Valuation Cap"
          /\ arg.catalog[j].key = "Date of Safe"

-----------------------------------------------------------------------------
(* Harness for the label pass: signature pages on which a label is         *)
(* repeated under one marker, with and without a label before the marker.  *)

PageMarkers == {"COMPANY", "[COMPANY]", "INVESTOR", "[INVESTOR]"}
PageLabels == {"Address:", "Email:", "Name:", "Title:"}
PageGaps == {<<>>, <<P("By:")>>, <<LongPad>>}

\* nothing, or a label before the marker, next to it or out of its reach
PageLeads == {<<>>, <<P("Name:")>>, <<P("Name:"), LongPad>>}

PageFiles ==
    {lead \o <<P(marker), P(label)>> \o gap \o <<P(label)>> :
        marker \in PageMarkers, label \in PageLabels, gap \in PageGaps,
        lead \in PageLeads}

\* pages on which the same generic token stands under both parties
TokenPages ==
    {<<P(m1), P(t), P(m2), P(t)>> :
        m1 \in {"COMPANY", "COMPANY:", "[COMPANY]"},
        m2 \in {"INVESTOR", "INVESTOR:"},
        t \in {"[name]", "[title]", "[Name]"}}

NextPages == \E file \in PageFiles \cup TokenPages : processFile(file)

SpecPages == InitScan /\ [][NextPages]_vars

\* the offsets of the line-end occurrences of the n-th label in the document
labelOffsets(n) ==
    labelIndexes(documentContent, toLowerCase(documentContent),
                 toLowerCase(labelFields[n]) \o ":")

\* the markers of the document as the scanner finds them
scannedSignatures == signatureMatches(toLowerCase(documentContent))

\* the catalog has an entry for the n-th label at labelIndex
labelEntryAt(n, labelIndex) ==
    \E e \in 1..Len(placeholders) :
        /\ placeholders[e].val.originalFormat = labelFields[n] \o ":"
        /\ placeholders[e].val.position = labelIndex

\* C13: two line-end occurrences of one label that resolve to the same
\* party at different offsets both have a catalog entry, each with its own
\* position.
C13_BothOccurrencesKept ==
    documentContent # "" =>
        \A sigs \in {scannedSignatures} :
            \A n \in 1..Len(labelFields) :
                \A i, j \in labelOffsets(n) :
                    (/\ i < j
                     /\ labelContext(sigs, i) # "null"
                     /\ labelContext(sigs, i) = labelContext(sigs, j))
                    => labelEntryAt(n, i) /\ labelEntryAt(n, j)

\* the entries of the catalog that are labels
labelEntries == {e \in 1..Len(placeholders) : isLabelFormat(placeholders[e].val.originalFormat)}

\* C14: a line-end label for which no party is resolved has no entry in the
\* catalog, and every label entry of the catalog carries the context
\* company or investor and the offset at which its label stands in the text.
C14_NoPartyNoEntry ==
    documentContent # "" =>
        \A sigs \in {scannedSignatures} :
            /\ \A n \in 1..Len(labelFields) :
                  \A i \in labelOffsets(n) :
                      labelContext(sigs, i) = "null" => ~labelEntryAt(n, i)
            /\ \A e \in labelEntries :
                  /\ placeholders[e].val.context \in {"company", "investor"}
                  /\ matchAt(documentContent, placeholders[e].val.position,
                             placeholders[e].val.originalFormat)
                  /\ \E n \in 1..Len(labelFields) :
                        placeholders[e].val.position \in labelOffsets(n)

\* a document with a label out of the reach of every marker has been
\* scanned, and another of its labels has an entry
C14_DroppedLabelReached ==
    /\ labelEntries # {}
    /\ \E n \in 1..Len(labelFields) :
          \E i \in labelOffsets(n) : labelContext(scannedSignatures, i) = "null"

\* the markers before the label at labelIndex and in its range
markersBefore(sigs, labelIndex) ==
    {i \in sigs.company \cup sigs.investor :
        i < labelIndex /\ labelIndex - i < NearbyRange}

\* the marker nearest to labelIndex stands at i
nearestOverall(sigs, labelIndex, i) ==
    /\ i \in sigs.company \cup sigs.investor
    /\ \A o \in sigs.company \cup sigs.investor : abs(i - labelIndex) <= abs(o - labelIndex)

\* the contexts of the catalog entries for the n-th label at labelIndex
partiesAt(n, labelIndex) ==
    {placeholders[e].val.context :
        e \in {d \in 1..Len(placeholders) :
                 /\ placeholders[d].val.originalFormat = labelFields[n] \o ":"
                 /\ placeholders[d].val.position = labelIndex}}

\* C17: a label with markers before it within 3000 characters has the party
\* of the nearest of them; a label without has a party only if it stands
\* within 500 characters after the marker nearest to it, and then that
\* marker's party.
C17_NearestMarkerDecides ==
    documentContent # "" =>
        \A sigs \in {scannedSignatures} :
            \A n \in 1..Len(labelFields) :
                \A labelIndex \in labelOffsets(n) :
                    \A party \in partiesAt(n, labelIndex) :
                        IF markersBefore(sigs, labelIndex) # {}
                        THEN party = signatureType(sigs, Max(markersBefore(sigs, labelIndex)))
                        ELSE \E i \in sigs.company \cup sigs.investor :
                                /\ nearestOverall(sigs, labelIndex, i)
                                /\ i < labelIndex
                                /\ labelIndex - i < CloseAfter
                                /\ party = signatureType(sigs, i)

\* the document has the token once after a COMPANY marker and before an
\* INVESTOR marker, and once more after the INVESTOR marker
ClaimUnderBoth(token) ==
    /\ Cardinality(occurrences(documentContent, token)) = 2
    /\ Cardinality(occurrences(documentContent, "INVESTOR")) = 1
    /\ \E c \in occurrences(documentContent, "COMPANY") :
          \E i \in occurrences(documentContent, "INVESTOR") :
              /\ c < Min(occurrences(documentContent, token))
              /\ Min(occurrences(documentContent, token)) < i
              /\ i < Max(occurrences(documentContent, token))

\* C19: a document with '[name]' under a COMPANY block and another '[name]'
\* under an INVESTOR block has both 'Company Name Field' and 'Investor
\* Name' in its catalog.
C19_BothPartiesKept ==
    ClaimUnderBoth("[name]") =>
        /\ mapHas(placeholders, "Company Name Field")
        /\ mapHas(placeholders, "Investor Name")

-----------------------------------------------------------------------------
(* Rendering of label fields: a signature page is loaded, its labels have  *)
(* been answered; the preview is generated and the file downloaded.        *)

Split2(t) ==
    Paragraph(FALSE, <<substring(t, 0, Len(t) \div 2), substringFrom(t, Len(t) \div 2)>>)

LabelPages ==
    { <<P("COMPANY"), P("Address:"), P("INVESTOR"), P("Address:")>>,
      <<P("COMPANY"), P("Name:"), P("Address:"), P("INVESTOR"), P("Name:")>>,
      <<P("COMPANY"), Split2("Address:"), P("INVESTOR"), P("Address:")>>,
      <<P("COMPANY"), P("Address:"), P("INVESTOR"), Split2("Address:")>>,
      <<P("COMPANY"), P("Mailing Address:"), P("INVESTOR"), P("Address:")>>,
      <<P("COMPANY"), P("Mailing Address:"), P("INVESTOR"), P("Address:"), P("Address:")>>,
      <<P("COMPANY"), P("ADDRESS:"), P("INVESTOR"), P("Address:")>>,
      <<P("COMPANY"), P("Email:"), P("Title:")>>,
      <<P("INVESTOR"), P("Email:"), P("COMPANY"), P("Email:")>>,
      <<P("Name:"), P("COMPANY"), P("Name:")>>,
      <<P("COMPANY"), P("Name:"), P("Name:")>>,
      <<P("The Company and the Investor agree."), P("COMPANY"), P("Title:"),
        P("INVESTOR"), P("Title:")>>,
      <<P("[COMPANY]"), P("Address:"), P("INVESTOR"), P("Address:")>>,
      <<P("[COMPANY]"), P("Name:"), P("INVESTOR:"), P("Name:"), P("Title:")>>,
      <<P("COMPANY:"), Paragraph(TRUE, <<"Address:">>), P("INVESTOR:"),
        Paragraph(TRUE, <<"Address:">>)>> }

\* what the user types for a label
LabelAnswers == <<"1 Main St", "Investor LLC", "a@b.co", "Address: 2 Oak Rd">>

\* the value map after the keys of the catalog were answered in this order,
\* the i-th key of the catalog with the (i + shift)-th answer
labelsFilledBy(catalog, order, shift) ==
    [i \in 1..Len(catalog) |->
        [key |-> catalog[order[i]].key,
         val |-> PlaceholderData(catalog[order[i]].val,
                    extractValue(LabelAnswers[((order[i] + shift) % Len(LabelAnswers)) + 1],
                                 catalog[order[i]].val))]]

InitLabels ==
    \E file \in LabelPages :
        \E catalog \in {extractPlaceholders(rawText(file))} :
            \E order \in FillOrders(Len(catalog)), shift \in 0..(Len(LabelAnswers) - 1) :
                /\ documentContent = rawText(file)
                /\ placeholders = catalog
                /\ fileBuffer = file
                /\ completedDocument = ""
                /\ filledData = <<>>
                /\ filledPlaceholders = labelsFilledBy(catalog, order, shift)
                /\ placeholderKeys = sortedKeys(catalog)
                /\ currentPlaceholderKey = NoKey
                /\ conversation = TRUE
                /\ skippedPlaceholders = {}
                /\ isAIThinking = FALSE
                /\ prompts = 0
                /\ submitting = EmptyBag
                /\ timers = EmptyBag
                /\ savedXml = ""
                /\ arg = NoArg
                /\ res = NoCall

NextLabels == generateButton \/ handleDownload

SpecLabels == InitLabels /\ [][NextLabels]_vars

\* every value of the map handed over with the preview is for a label
ClaimLabelsOnly ==
    /\ filledData # <<>>
    /\ \A i \in 1..Len(filledData) : isLabelFormat(filledData[i].val.info.originalFormat)

ClaimInsertAt(t, j, ins) == substring(t, 0, j) \o ins \o substringFrom(t, j)

\* the places of a text directly after an occurrence of the label
ClaimTextSpots(t, label) == {i + Len(label) : i \in occurrences(t, label)}

\* the places of a markup directly after the last character of an
\* occurrence of the label in its visible text
ClaimMarkupSpots(t, label) ==
    {j \in 1..Len(t) :
        /\ charAt(t, j - 1) = ":"
        /\ lastIndexOf(substring(t, 0, j), "<") < lastIndexOf(substring(t, 0, j), ">")
        /\ endsWith(stripTags(substring(t, 0, j), ""), label)}

\* the spots of the label and the value as shown, in the markup or in the
\* text
ClaimSpots(t, label, markup) ==
    IF markup THEN ClaimMarkupSpots(t, label) ELSE ClaimTextSpots(t, label)

ClaimLabelValue(data, markup) ==
    IF markup THEN escapeXml(data.value) ELSE data.value

\* the texts got from those of T by inserting, for every entry of S in any
\* order, ' ' and its value at one of the spots of its label
RECURSIVE ClaimInsertions(_, _, _)
ClaimInsertions(T, S, markup) ==
    IF S = {} THEN T
    ELSE UNION {ClaimInsertions(
                    UNION {{ClaimInsertAt(t, j, " " \o ClaimLabelValue(filledData[e].val, markup)) :
                               j \in ClaimSpots(t, filledData[e].val.info.originalFormat,
                                                markup)} :
                           t \in T},
                    S \ {e}, markup) : e \in S}

\* C21: for label entries both renderers only insert: the preview is the
\* document text, and the saved markup the uploaded markup, with ' ' and the
\* value of every entry inserted directly after an occurrence of its label
\* and nothing else removed or changed.
C21_LabelsOnlyInsert ==
    ClaimLabelsOnly =>
        /\ completedDocument # "" =>
              completedDocument \in
                  ClaimInsertions({documentContent}, 1..Len(filledData), FALSE)
        /\ savedXml # "" =>
              savedXml \in
                  ClaimInsertions({docXml(fileBuffer)}, 1..Len(filledData), TRUE)

\* the entries of the value map handed over that are for labels
ClaimLabelEntries ==
    {i \in 1..Len(filledData) : isLabelFormat(filledData[i].val.info.originalFormat)}

\* the label of entry i with its value after it, as the markup shows it
ClaimLabelWith(i) ==
    filledData[i].val.info.originalFormat \o " " \o escapeXml(filledData[i].val.value)

-----------------------------------------------------------------------------
(* C28                                                                     *)

\* of the label entries S, the one the scanner found last in the document
ClaimLastFound(S) ==
    CHOOSE e \in S :
        \A f \in S : filledData[f].val.info.position <= filledData[e].val.info.position

\* text with ' ' and the value of every entry of S inserted after the
\* occurrence of its label the scanner recorded for it
RECURSIVE ClaimAppended(_, _)
ClaimAppended(text, S) ==
    IF S = {} THEN text
    ELSE ClaimAppended(
             ClaimInsertAt(text,
                           filledData[ClaimLastFound(S)].val.info.position
                               + Len(filledData[ClaimLastFound(S)].val.info.originalFormat),
                           " " \o filledData[ClaimLastFound(S)].val.value),
             S \ {ClaimLastFound(S)})

\* the entries other than labels stand for the [COMPANY] marker only
ClaimMarkerOnly ==
    \A i \in 1..Len(filledData) :
        \/ i \in ClaimLabelEntries
        \/ /\ filledData[i].key = "Company Name"
           /\ filledData[i].val.info.originalFormat = "[COMPANY]"

\* C28: in the preview every label occurrence has at most one value after
\* it: the value of each label entry stands after the occurrence the
\* scanner recorded for it, the company's and the investor's on two
\* different occurrences, whatever the other values are and also when the
\* company name has taken the place of the [COMPANY] marker.
C28_OneValuePerOccurrence ==
    (completedDocument # "" /\ ClaimLabelEntries # {} /\ ClaimMarkerOnly) =>
        completedDocument =
            IF mapHas(filledData, "Company Name")
            THEN replaceAll(ClaimAppended(documentContent, ClaimLabelEntries), "[COMPANY]",
                            mapGet(filledData, "Company Name").value)
            ELSE ClaimAppended(documentContent, ClaimLabelEntries)

-----------------------------------------------------------------------------
(* C15, C16: extractValue on answers without a number and on placeholders  *)
(* without a dollar prefix                                                 *)

hasDigit(s) == \E i \in 0..(Len(s) - 1) : isDigit(charAt(s, i))

\* '$' and the text, the text itself if it starts with '$'
dollarPrefixed(s) == IF startsWith(s, "$") THEN s ELSE "$" \o s

\* C15: for a currency placeholder an answer without any digit comes back
\* as '$' and the trimmed answer verbatim, and 'yes, later' as '$yes, later'.
C15_NoNumberVerbatim ==
    (res.done /\ arg.placeholder.prefix = "$" /\ ~hasDigit(arg.input)) =>
        res.value = dollarPrefixed(trim(arg.input))

\* C16: for a placeholder whose prefix is not '$' extractValue returns the
\* trimmed answer, whatever the key.
C16_PassThrough ==
    (res.done /\ arg.placeholder.prefix # "$") => res.value = trim(arg.input)

=============================================================================
